---- MODULE Spec2Model ----
(***************************************************************************)
(* Weather-probability analysis of src/src/components/DateSelector.tsx:    *)
(* calculateWeatherProbability (the monthly aggregator),                   *)
(* integrateForecastData (the forecast blender) and                        *)
(* getWeatherProbabilityAnalysis (the orchestrator over the two fetches).  *)
(*                                                                         *)
(* Representation.                                                         *)
(*  - A value that may be `undefined` in the code is a set: {} is          *)
(*    undefined, {v} is the number v.                                      *)
(*  - A response payload is a record; hasDaily / hasTime say whether the   *)
(*    `daily` object and its `time` array are present.  The per-field      *)
(*    arrays are indexed 1..n here and 0..n-1 in the code; an index past   *)
(*    the end of an array reads undefined, as in the code.                 *)
(*  - A date string 'YYYY-MM-DD' is the record [y, m, d].                  *)
(*  - avgTemperature, avgPrecipitation and avgWindSpeed are kept in tenths *)
(*    (the code rounds them to one decimal): 93 stands for 9.3.            *)
(*  - Readings are integers, fewer than 20 per month, so that rounding to  *)
(*    one decimal is exact in IEEE-754 doubles.                            *)
(***************************************************************************)
EXTENDS Integers, Sequences, FiniteSets, TLC

VARIABLES
    pc,            \* position of the invocation
    timezone,      \* timezone of the runtime the code executes in
    selectedDate,  \* the selectedDate argument (a local calendar date)
    histStatus,    \* settlement of fetchHistoricalWeatherData
    fcStatus,      \* settlement of fetchWeatherForecast
    historical,    \* payload of the historical fetch when fulfilled
    forecast,      \* payload of the forecast fetch when fulfilled
    result,        \* value getWeatherProbabilityAnalysis resolves with
    path,          \* stages the invocation went through
    aggOut,        \* value returned by a direct call of calculateWeatherProbability
    frame,         \* locals of the call of calculateWeatherProbability in progress
    returned,      \* values the stepwise calls have returned, in order
    blendOut,      \* value returned by a direct call of integrateForecastData
    variables,     \* the selected variable labels
    dailyParams,   \* the `daily` parameter of the two requests
    requests,      \* requests sent to the two endpoints so far
    props,               \* props of the monthly ProbabilityResults component
    probabilityResults,  \* its useState fields
    inFlight,            \* runs of its effect that await the analysis
    started,             \* number of runs of its effect so far
    applied,             \* ids of the runs that wrote their result, in order
    indexPage,           \* useState fields of the Index page
    toasts,              \* toasts the Index page has shown
    locationSelector,    \* useState fields of LocationSelector
    timers,              \* pending setTimeout callbacks of LocationSelector
    now,                 \* the clock, in units of 100 ms
    fetches,             \* geocoding requests awaiting their response
    issued,              \* queries of the geocoding requests sent, in order
    forecastResults,     \* useState fields of the 7-day ProbabilityResults
    coordinates,         \* its latitude and longitude props
    forecastRequests,    \* runs of its effect and the requests they sent
    geminiData           \* the localStorage item "geminiData"

analysisVars == <<pc, timezone, selectedDate, histStatus, fcStatus, historical,
                  forecast, result, path, aggOut, frame, returned, blendOut, variables,
                  dailyParams, requests>>
effectVars == <<props, probabilityResults, inFlight, started, applied>>
indexVars == <<indexPage, toasts>>
searchVars == <<locationSelector, timers, now, fetches, issued>>
weekVars == <<forecastResults, coordinates, forecastRequests, geminiData>>
viewVars == <<effectVars, indexVars, searchVars, weekVars>>

vars == <<analysisVars, viewVars>>

(***************************************************************************)
(* Bounds of the model.                                                    *)
(***************************************************************************)
MaxHistDays == 2
MaxFcDays == 2
MaxAggDays == 2
MaxBlendDays == 2
MaxVariables == 2

(***************************************************************************)
(* Program constants.                                                      *)
(***************************************************************************)
PrecipThreshold == 5
TempLow == 5
TempHigh == 32
WindThreshold == 25
PrecipProbThreshold == 60
ClampLow == 5
ClampHigh == 95
NoDataProbability == 50
DefaultProbability == 50
HistoricalWeight == 7
ForecastWeight == 3

Max2(a, b) == IF a >= b THEN a ELSE b
Min2(a, b) == IF a <= b THEN a ELSE b

(* The short month names toLocaleString yields in an English locale. *)
ShortMonthNames ==
    <<"Jan", "Feb", "Mar", "Apr", "May", "Jun",
      "Jul", "Aug", "Sep", "Oct", "Nov", "Dec">>

Timezones == {"UTC", "America/New_York"}

(* new Date('YYYY-MM-DD').toLocaleString('default', { month: 'short' }):   *)
(* a date-only string is parsed as midnight UTC and formatted in the       *)
(* runtime's timezone, so west of UTC it falls on the previous local day.  *)
(* (English locale.)                                                       *)
DateStringMonthKey(date, tz) ==
    IF tz = "America/New_York" /\ date.d = 1
    THEN ShortMonthNames[IF date.m = 1 THEN 12 ELSE date.m - 1]
    ELSE ShortMonthNames[date.m]

(* selectedDate.toLocaleString('default', { month: 'short' }) of a Date    *)
(* object that carries a local calendar date.                              *)
SelectedMonthKey(date) == ShortMonthNames[date.m]

(* arr?.[index]: undefined when the array is absent or too short.          *)
At(arr, index) == IF index \in DOMAIN arr THEN arr[index] ELSE {}

NumberOf(opt) == CHOOSE v \in opt : TRUE

(* Variant that pushes 0 for a missing value (x ?? 0). *)
PushUndefinedAsZero(seq, opt) ==
    Append(seq, IF opt # {} THEN NumberOf(opt) ELSE 0)

(* if (x !== undefined) seq.push(x) *)
PushDefined(seq, opt) == IF opt # {} THEN Append(seq, NumberOf(opt)) ELSE seq

RECURSIVE SumSeq(_)
SumSeq(s) == IF s = <<>> THEN 0 ELSE Head(s) + SumSeq(Tail(s))

(* Math.round(n / d) for d > 0: nearest integer, ties toward +infinity.    *)
RoundDiv(n, d) == (2 * n + d) \div (2 * d)

(* Variant without the upper limit: Math.max(p, 5). *)
ClampNoUpper(p) == Max2(p, ClampLow)

(* Math.min(Math.max(p, 5), 95) *)
Clamp(p) == Min2(Max2(p, ClampLow), ClampHigh)

(***************************************************************************)
(* calculateWeatherProbability                                             *)
(***************************************************************************)

(* The bucket a month gets when its first date is met. *)
NewMonthStats == [temperatures |-> <<>>, precipitation |-> <<>>, windSpeeds |-> <<>>]

(* daily.time.forEach((date, index) => ...): monthlyStats after the        *)
(* callback has run for index, index + 1, ... ; monthlyStats is a function *)
(* whose domain is the set of keys created so far.                         *)
RECURSIVE GroupHistorical(_, _, _, _)
GroupHistorical(daily, tz, index, monthlyStats) ==
    IF index > Len(daily.time) THEN monthlyStats
    ELSE
      LET monthKey == DateStringMonthKey(daily.time[index], tz)
          cur == IF monthKey \in DOMAIN monthlyStats
                 THEN monthlyStats[monthKey] ELSE NewMonthStats
          upd == [temperatures |->
                      PushDefined(cur.temperatures, At(daily.temperature_2m_max, index)),
                  precipitation |->
                      PushDefined(cur.precipitation, At(daily.precipitation_sum, index)),
                  windSpeeds |->
                      PushDefined(cur.windSpeeds, At(daily.windspeed_10m_max, index))]
      IN GroupHistorical(daily, tz, index + 1,
             [k \in (DOMAIN monthlyStats) \cup {monthKey} |->
                 IF k = monthKey THEN upd ELSE monthlyStats[k]])

(* seq[i] of a dense array: undefined past its end. *)
Elem(seq, i) == IF i \in 1..Len(seq) THEN {seq[i]} ELSE {}

(* Variant whose precipitation test is >= instead of >. *)
IsAdverseInclusive(temp, precip, wind) ==
    \/ precip # {} /\ NumberOf(precip) >= PrecipThreshold
    \/ temp # {} /\ (NumberOf(temp) < TempLow \/ NumberOf(temp) > TempHigh)
    \/ wind # {} /\ NumberOf(wind) > WindThreshold

(* Variant with the limits of the integration guide: 10 mm, 0 and 35     *)
(* degrees, 30 km/h.                                                       *)
IsAdverseDocumented(temp, precip, wind) ==
    \/ precip # {} /\ NumberOf(precip) > 10
    \/ temp # {} /\ (NumberOf(temp) < 0 \/ NumberOf(temp) > 35)
    \/ wind # {} /\ NumberOf(wind) > 30

(* The three threshold tests of the counting loop. *)
IsAdverse(temp, precip, wind) ==
    \/ precip # {} /\ NumberOf(precip) > PrecipThreshold
    \/ temp # {} /\ (NumberOf(temp) < TempLow \/ NumberOf(temp) > TempHigh)
    \/ wind # {} /\ NumberOf(wind) > WindThreshold

(* Variant that walks the positions all three arrays have. *)
RECURSIVE CountLoop(_, _, _, _)
MonthCountsOverShortest(stats) ==
    CountLoop(stats, 1,
              Min2(Len(stats.temperatures),
                   Min2(Len(stats.precipitation), Len(stats.windSpeeds))),
              [adverseCount |-> 0, totalCount |-> 0])

(* for (let i = 0; i < maxLength; i++) { ... }: the counters after the     *)
(* iterations i, i + 1, ..., maxLength (1-based).                          *)
CountLoop(stats, i, maxLength, counts) ==
    IF i > maxLength THEN counts
    ELSE
      LET temp == Elem(stats.temperatures, i)
          precip == Elem(stats.precipitation, i)
          wind == Elem(stats.windSpeeds, i)
          next ==
            IF temp # {} \/ precip # {} \/ wind # {}
            THEN [totalCount |-> counts.totalCount + 1,
                  adverseCount |-> counts.adverseCount
                                   + (IF IsAdverse(temp, precip, wind) THEN 1 ELSE 0)]
            ELSE counts
      IN CountLoop(stats, i + 1, maxLength, next)

MonthCounts(stats) ==
    CountLoop(stats, 1,
              Max2(Len(stats.temperatures),
                   Max2(Len(stats.precipitation), Len(stats.windSpeeds))),
              [adverseCount |-> 0, totalCount |-> 0])

(* Math.round((adverseCount / totalCount) * 100) in IEEE-754 doubles, for  *)
(* totalCount < 400: the exact quotient rounded half up, except for the    *)
(* ties whose double product falls just below .5 (23/40 gives              *)
(* 57.49999999999999).                                                     *)
RatioTiesBelow == {<<23, 40>>, <<29, 200>>, <<57, 200>>, <<113, 200>>}
RoundPercent(adverseCount, totalCount) ==
    RoundDiv(100 * adverseCount, totalCount)
      - (IF \E f \in RatioTiesBelow : adverseCount * f[2] = f[1] * totalCount
         THEN 1 ELSE 0)

(* totalCount > 0 ? Math.round((adverseCount / totalCount) * 100) : 50 *)
RawProbability(counts) ==
    IF counts.totalCount > 0
    THEN RoundPercent(counts.adverseCount, counts.totalCount)
    ELSE NoDataProbability

(* Math.round(avg * 10) / 10 of the mean of seq, in tenths; 0 when empty. *)
Average10(seq) ==
    IF Len(seq) > 0 THEN RoundDiv(10 * SumSeq(seq), Len(seq)) ELSE 0

(* Variant of the month list that stops at Nov. *)
MonthListWithoutDec ==
    <<"Jan", "Feb", "Mar", "Apr", "May", "Jun",
      "Jul", "Aug", "Sep", "Oct", "Nov">>

(* The array literal that calculateWeatherProbability maps over. *)
MonthList ==
    <<"Jan", "Feb", "Mar", "Apr", "May", "Jun",
      "Jul", "Aug", "Sep", "Oct", "Nov", "Dec">>

(* The entry of a month that has no bucket. *)
NoStatsEntry(month) ==
    [month |-> month, probability |-> NoDataProbability,
     avgTemperature |-> 0, avgPrecipitation |-> 0, avgWindSpeed |-> 0]

(* The callback of [...].map(month => ...). *)
MonthEntry(month, monthlyStats) ==
    IF month \notin DOMAIN monthlyStats THEN NoStatsEntry(month)
    ELSE
      LET stats == monthlyStats[month]
      IN [month |-> month,
          probability |-> Clamp(RawProbability(MonthCounts(stats))),
          avgTemperature |-> Average10(stats.temperatures),
          avgPrecipitation |-> Average10(stats.precipitation),
          avgWindSpeed |-> Average10(stats.windSpeeds)]

(* generateDefaultMonthlyData (averages in tenths). *)
generateDefaultMonthlyData ==
    << [month |-> "Jan", probability |-> 45, avgTemperature |-> 50, avgPrecipitation |-> 500, avgWindSpeed |-> 150],
       [month |-> "Feb", probability |-> 42, avgTemperature |-> 70, avgPrecipitation |-> 450, avgWindSpeed |-> 160],
       [month |-> "Mar", probability |-> 38, avgTemperature |-> 120, avgPrecipitation |-> 400, avgWindSpeed |-> 180],
       [month |-> "Apr", probability |-> 35, avgTemperature |-> 170, avgPrecipitation |-> 350, avgWindSpeed |-> 170],
       [month |-> "May", probability |-> 30, avgTemperature |-> 220, avgPrecipitation |-> 300, avgWindSpeed |-> 150],
       [month |-> "Jun", probability |-> 25, avgTemperature |-> 270, avgPrecipitation |-> 200, avgWindSpeed |-> 120],
       [month |-> "Jul", probability |-> 22, avgTemperature |-> 300, avgPrecipitation |-> 150, avgWindSpeed |-> 100],
       [month |-> "Aug", probability |-> 24, avgTemperature |-> 290, avgPrecipitation |-> 180, avgWindSpeed |-> 110],
       [month |-> "Sep", probability |-> 28, avgTemperature |-> 240, avgPrecipitation |-> 250, avgWindSpeed |-> 130],
       [month |-> "Oct", probability |-> 35, avgTemperature |-> 180, avgPrecipitation |-> 350, avgWindSpeed |-> 150],
       [month |-> "Nov", probability |-> 40, avgTemperature |-> 110, avgPrecipitation |-> 450, avgWindSpeed |-> 160],
       [month |-> "Dec", probability |-> 43, avgTemperature |-> 60, avgPrecipitation |-> 480, avgWindSpeed |-> 170] >>

(* monthlyData.find(d => d.month === key): {} when there is none. *)
FindMonth(monthlyData, key) ==
    LET hits == {i \in DOMAIN monthlyData : monthlyData[i].month = key}
    IN IF hits = {} THEN {}
       ELSE {monthlyData[CHOOSE i \in hits : \A j \in hits : i <= j]}

(* Variant that never looks at the entry. *)
ProbabilityOrFallbackOnly(entry, fallback) == fallback

(* entry?.probability || fallback *)
ProbabilityOr(entry, fallback) ==
    IF entry = {} THEN fallback
    ELSE IF NumberOf(entry).probability = 0 THEN fallback
    ELSE NumberOf(entry).probability

(* !daily || !daily.time || daily.time.length === 0 *)
NoDailyData(weatherData) ==
    \/ ~weatherData.hasDaily
    \/ ~weatherData.hasTime
    \/ Len(weatherData.time) = 0

EmptyMonthlyStats == [k \in {} |-> NewMonthStats]

calculateWeatherProbability(weatherData, date, tz) ==
    IF NoDailyData(weatherData)
    THEN [probability |-> DefaultProbability,
          monthlyData |-> generateDefaultMonthlyData]
    ELSE
      LET monthlyStats == GroupHistorical(weatherData, tz, 1, EmptyMonthlyStats)
          monthlyData == [n \in DOMAIN MonthList |-> MonthEntry(MonthList[n], monthlyStats)]
      IN [probability |->
              ProbabilityOr(FindMonth(monthlyData, SelectedMonthKey(date)),
                            DefaultProbability),
          monthlyData |-> monthlyData]

(***************************************************************************)
(* Response payloads (WeatherHistoricalResponse, WeatherForecastResponse). *)
(***************************************************************************)

(* A response without a `daily` object, and one whose `daily` has no       *)
(* `time` array.                                                           *)
NoDailyPayload ==
    [hasDaily |-> FALSE, hasTime |-> FALSE, time |-> <<>>,
     temperature_2m_max |-> <<>>, precipitation_sum |-> <<>>,
     windspeed_10m_max |-> <<>>, precipitation_probability_max |-> <<>>]
NoTimePayload == [NoDailyPayload EXCEPT !.hasDaily = TRUE]

(* The response whose parallel arrays hold the given day records. *)
DailyPayload(days) ==
    [hasDaily |-> TRUE, hasTime |-> TRUE,
     time |-> [i \in DOMAIN days |-> days[i].date],
     temperature_2m_max |-> [i \in DOMAIN days |-> days[i].temp],
     precipitation_sum |-> [i \in DOMAIN days |-> days[i].precip],
     windspeed_10m_max |-> [i \in DOMAIN days |-> days[i].wind],
     precipitation_probability_max |-> [i \in DOMAIN days |-> days[i].precipProb]]

DayRecords(dates, temps, precips, winds, precipProbs) ==
    [date : dates, temp : temps, precip : precips, wind : winds,
     precipProb : precipProbs]

SeqsUpTo(S, n) == UNION {[1..k -> S] : k \in 0..n}

(* { daily: { time: [] } }: the stub the default results carry. *)
StubPayload == DailyPayload(<<>>)

(***************************************************************************)
(* integrateForecastData                                                   *)
(***************************************************************************)
NewForecastMonth ==
    [temperatures |-> <<>>, precipitation |-> <<>>, windSpeeds |-> <<>>,
     precipProb |-> <<>>]

(* forecastData.daily.time.forEach((date, index) => ...) *)
RECURSIVE GroupForecast(_, _, _, _)
GroupForecast(daily, tz, index, forecastByMonth) ==
    IF index > Len(daily.time) THEN forecastByMonth
    ELSE
      LET monthKey == DateStringMonthKey(daily.time[index], tz)
          cur == IF monthKey \in DOMAIN forecastByMonth
                 THEN forecastByMonth[monthKey] ELSE NewForecastMonth
          upd == [temperatures |->
                      PushDefined(cur.temperatures, At(daily.temperature_2m_max, index)),
                  precipitation |->
                      PushDefined(cur.precipitation, At(daily.precipitation_sum, index)),
                  windSpeeds |->
                      PushDefined(cur.windSpeeds, At(daily.windspeed_10m_max, index)),
                  precipProb |->
                      PushDefined(cur.precipProb,
                                  At(daily.precipitation_probability_max, index))]
      IN GroupForecast(daily, tz, index + 1,
             [k \in (DOMAIN forecastByMonth) \cup {monthKey} |->
                 IF k = monthKey THEN upd ELSE forecastByMonth[k]])

(* Variant whose precipitation-probability test includes the limit. *)
IsForecastAdverseInclusive(temp, precip, wind, precipProbability) ==
    \/ precip # {} /\ NumberOf(precip) > PrecipThreshold
    \/ temp # {} /\ (NumberOf(temp) < TempLow \/ NumberOf(temp) > TempHigh)
    \/ wind # {} /\ NumberOf(wind) > WindThreshold
    \/ precipProbability # {} /\ NumberOf(precipProbability) >= PrecipProbThreshold

(* The four threshold tests of the forecast loop. *)
IsForecastAdverse(temp, precip, wind, precipProbability) ==
    \/ precip # {} /\ NumberOf(precip) > PrecipThreshold
    \/ temp # {} /\ (NumberOf(temp) < TempLow \/ NumberOf(temp) > TempHigh)
    \/ wind # {} /\ NumberOf(wind) > WindThreshold
    \/ precipProbability # {} /\ NumberOf(precipProbability) > PrecipProbThreshold

RECURSIVE ForecastCountLoop(_, _, _, _)
ForecastCountLoop(forecastMonth, i, maxLength, counts) ==
    IF i > maxLength THEN counts
    ELSE
      LET temp == Elem(forecastMonth.temperatures, i)
          precip == Elem(forecastMonth.precipitation, i)
          wind == Elem(forecastMonth.windSpeeds, i)
          precipProbability == Elem(forecastMonth.precipProb, i)
          next ==
            IF temp # {} \/ precip # {} \/ wind # {} \/ precipProbability # {}
            THEN [totalCount |-> counts.totalCount + 1,
                  adverseCount |-> counts.adverseCount
                      + (IF IsForecastAdverse(temp, precip, wind, precipProbability)
                         THEN 1 ELSE 0)]
            ELSE counts
      IN ForecastCountLoop(forecastMonth, i + 1, maxLength, next)

ForecastCounts(forecastMonth) ==
    ForecastCountLoop(forecastMonth, 1,
        Max2(Max2(Len(forecastMonth.temperatures), Len(forecastMonth.precipitation)),
             Max2(Len(forecastMonth.windSpeeds), Len(forecastMonth.precipProb))),
        [adverseCount |-> 0, totalCount |-> 0])

(* Math.round((probability * 0.7) + (forecastProbability * 0.3)) with      *)
(* forecastProbability = totalCount > 0 ? (adverseCount / totalCount) * 100 *)
(* : 0, in IEEE-754 doubles, for probability in 5..95 and totalCount up to *)
(* the 16 forecast days requested: the exact value rounded half up, except *)
(* for the ties whose double sum falls just below .5 (45 * 0.7 is          *)
(* 31.499999999999996; 5 * 0.7 + 33.33333333333333 * 0.3 is                *)
(* 13.499999999999998).  An entry is <<probability, n, d>> for the         *)
(* forecast fraction n / d in lowest terms.                                *)
BlendTiesBelow ==
    { <<45, 0, 1>>, <<85, 0, 1>>,
      <<5, 1, 3>>, <<45, 1, 3>>, <<85, 1, 3>>,
      <<5, 2, 3>>, <<15, 2, 3>>, <<45, 2, 3>>, <<85, 2, 3>>,
      <<45, 1, 6>>, <<85, 1, 6>>, <<85, 1, 10>>,
      <<90, 1, 12>>, <<90, 11, 12>>,
      <<85, 1, 15>>, <<85, 2, 15>>, <<45, 7, 15>>, <<85, 7, 15>>,
      <<5, 11, 15>>, <<45, 11, 15>>, <<85, 11, 15>>,
      <<5, 14, 15>>, <<45, 14, 15>>, <<85, 14, 15>> }

BlendRound(probability, counts) ==
    LET a == IF counts.totalCount > 0 THEN counts.adverseCount ELSE 0
        t == IF counts.totalCount > 0 THEN counts.totalCount ELSE 1
    IN RoundDiv(HistoricalWeight * probability * t + ForecastWeight * 100 * a, 10 * t)
         - (IF \E e \in BlendTiesBelow :
                  e[1] = probability /\ a * e[3] = e[2] * t
            THEN 1 ELSE 0)

(* The callback of monthlyData.map(monthData => ...). *)
EnhanceMonth(monthData, forecastByMonth) ==
    IF monthData.month \notin DOMAIN forecastByMonth THEN monthData
    ELSE [monthData EXCEPT
            !.probability =
               Clamp(BlendRound(monthData.probability,
                                ForecastCounts(forecastByMonth[monthData.month])))]

EmptyForecastByMonth == [k \in {} |-> NewForecastMonth]

integrateForecastData(monthlyData, forecastData, tz) ==
    IF ~forecastData.hasDaily \/ ~forecastData.hasTime THEN monthlyData
    ELSE
      LET forecastByMonth == GroupForecast(forecastData, tz, 1, EmptyForecastByMonth)
      IN [n \in DOMAIN monthlyData |-> EnhanceMonth(monthlyData[n], forecastByMonth)]

(***************************************************************************)
(* fetchHistoricalWeatherData, fetchWeatherForecast: the `daily` parameter *)
(* of the request.  A comma-separated list of field names is the sequence  *)
(* of its field names; the empty string is the empty sequence.             *)
(***************************************************************************)

(* Labels a caller may pass: the ids the variable selector offers, other   *)
(* spellings, the keys of the tables, a label no table knows, and the name *)
(* of a member every object inherits.                                      *)
Labels ==
    {"temperature", "Temperature", "PRECIPITATION", "wind", "humidity",
     "airquality", "Air Quality", "cloudcover", "pressure", "constructor"}

(* v.toLowerCase() on these labels. *)
ToLowerCase(v) ==
    CASE v = "Temperature" -> "temperature"
      [] v = "PRECIPITATION" -> "precipitation"
      [] v = "Air Quality" -> "air quality"
      [] OTHER -> v

variableMapping ==
    "temperature" :> <<"temperature_2m_max", "temperature_2m_min", "temperature_2m_mean">>
    @@ "precipitation" :> <<"precipitation_sum", "rain_sum", "snowfall_sum",
                            "precipitation_hours">>
    @@ "wind" :> <<"windspeed_10m_max", "windgusts_10m_max", "winddirection_10m_dominant">>
    @@ "air quality" :> <<"shortwave_radiation_sum">>
    @@ "humidity" :> <<"precipitation_hours">>
    @@ "cloud cover" :> <<"shortwave_radiation_sum">>
    @@ "visibility" :> <<"shortwave_radiation_sum">>

forecastVariableMapping ==
    "temperature" :> <<"temperature_2m_max", "temperature_2m_min">>
    @@ "precipitation" :> <<"precipitation_sum", "rain_sum", "snowfall_sum",
                            "precipitation_probability_max">>
    @@ "wind" :> <<"windspeed_10m_max", "windgusts_10m_max", "winddirection_10m_dominant">>
    @@ "air quality" :> <<"uv_index_max">>
    @@ "humidity" :> <<"precipitation_probability_max">>
    @@ "cloud cover" :> <<"precipitation_probability_max">>
    @@ "visibility" :> <<"precipitation_probability_max">>

(* What the members an object literal inherits from Object.prototype turn  *)
(* into when they are joined into the list: the Object function and the    *)
(* prototype object, converted to strings.                                 *)
InheritedMembers ==
    "constructor" :> <<"function Object() { [native code] }">>
    @@ "__proto__" :> <<"[object Object]">>

(* mapping[key] || '' : own keys first, then the inherited members, else   *)
(* undefined, which || turns into the empty string.                        *)
LookupOrEmpty(mapping, key) ==
    IF key \in DOMAIN mapping THEN mapping[key]
    ELSE IF key \in DOMAIN InheritedMembers THEN InheritedMembers[key]
    ELSE <<>>

(* .filter(Boolean).join(','): empty strings dropped, the rest joined. *)
RECURSIVE JoinNonEmpty(_)
JoinNonEmpty(parts) ==
    IF parts = <<>> THEN <<>> ELSE Head(parts) \o JoinNonEmpty(Tail(parts))

HistoricalDefaultParams ==
    <<"temperature_2m_max", "temperature_2m_min", "precipitation_sum",
      "windspeed_10m_max">>
ForecastDefaultParams ==
    <<"temperature_2m_max", "temperature_2m_min", "precipitation_sum",
      "precipitation_probability_max", "windspeed_10m_max">>

(* variables.length > 0 ? variables.map(...).filter(Boolean).join(',')     *)
(*                      : '<default fields>'                               *)
DailyParams(mapping, defaults, vs) ==
    IF Len(vs) > 0
    THEN JoinNonEmpty([i \in DOMAIN vs |-> LookupOrEmpty(mapping, ToLowerCase(vs[i]))])
    ELSE defaults

(***************************************************************************)
(* getWeatherProbabilityAnalysis                                           *)
(***************************************************************************)

(* The three default results: probability 50 and the canned series. *)
DefaultResult(historicalData, forecastData) ==
    [probability |-> DefaultProbability,
     monthlyData |-> generateDefaultMonthlyData,
     historicalData |-> historicalData,
     forecastData |-> forecastData,
     dataSource |-> "default"]

(* Variant of the catch block that passes the error on: the caller gets a  *)
(* rejection instead of a result.                                          *)
Rethrown ==
    [probability |-> 0, monthlyData |-> <<>>, historicalData |-> StubPayload,
     forecastData |-> {}, dataSource |-> "rejected"]

(* The value the catch block returns. *)
CaughtResult == DefaultResult(StubPayload, {})

(* Variant that never reports an empty series. *)
HistoricalDaysCountAtLeastOne(historical_) ==
    IF historical_.hasTime THEN Max2(Len(historical_.time), 1) ELSE 1

(* historical.daily.time?.length || 0 (historical.daily is present). *)
HistoricalDaysCount(historical_) ==
    IF historical_.hasTime THEN Len(historical_.time) ELSE 0

(* Variant that ignores whether the forecast is there. *)
DataSourceAlwaysCombined(forecast_) == "combined"

(* forecast ? 'combined' : 'historical' *)
DataSourceOf(forecast_) == IF forecast_ # {} THEN "combined" ELSE "historical"

(* forecast ? integrateForecastData(monthlyData, forecast, selectedDate)   *)
(*          : monthlyData                                                  *)
EnhancedMonthlyData(monthlyData, forecast_, tz) ==
    IF forecast_ # {}
    THEN integrateForecastData(monthlyData, NumberOf(forecast_), tz)
    ELSE monthlyData

(* The code after `await Promise.allSettled([...])`: the value the         *)
(* function resolves with and the stages it goes through.  Reading .time   *)
(* of a missing `daily` object throws a TypeError, which the catch block   *)
(* turns into a default result.  The stage Analyzing is the call of        *)
(* calculateWeatherProbability, Blending the call of integrateForecastData; *)
(* both throws happen before the first of them.                            *)
AnalysisOutcome(hs, hist, fs, fc, date, tz) ==
    LET historical_ == IF hs = "fulfilled" THEN {hist} ELSE {}
        forecast_ == IF fs = "fulfilled" THEN {fc} ELSE {}
        caught == [result |-> CaughtResult,
                   path |-> <<"DefaultFallback", "Done">>]
    IN
    IF historical_ = {}
    THEN [result |-> DefaultResult(StubPayload, forecast_),
          path |-> <<"DefaultFallback", "Done">>]
    ELSE IF ~hist.hasDaily THEN caught
    ELSE IF HistoricalDaysCount(hist) = 0
    THEN [result |-> DefaultResult(hist, forecast_),
          path |-> <<"DefaultFallback", "Done">>]
    ELSE IF forecast_ # {} /\ ~fc.hasDaily
    THEN caught
    ELSE
      LET calculated == calculateWeatherProbability(hist, date, tz)
          enhancedMonthlyData ==
              EnhancedMonthlyData(calculated.monthlyData, forecast_, tz)
          finalProbability ==
              ProbabilityOr(FindMonth(enhancedMonthlyData, SelectedMonthKey(date)),
                            calculated.probability)
      IN [result |-> [probability |-> finalProbability,
                      monthlyData |-> enhancedMonthlyData,
                      historicalData |-> hist,
                      forecastData |-> forecast_,
                      dataSource |-> DataSourceOf(forecast_)],
          path |-> IF forecast_ # {} THEN <<"Analyzing", "Blending", "Done">>
                   ELSE <<"Analyzing", "Done">>]

(***************************************************************************)
(* Direct calls of calculateWeatherProbability (specification SpecAgg).    *)
(***************************************************************************)
Jan15 == [y |-> 2023, m |-> 1, d |-> 15]
Mar01 == [y |-> 2024, m |-> 3, d |-> 1]
Jul10 == [y |-> 2024, m |-> 7, d |-> 10]
Feb01 == [y |-> 2025, m |-> 2, d |-> 1]
Jan20 == [y |-> 2025, m |-> 1, d |-> 20]

AggDates == {Jan15, Mar01}

(* Series of up to MaxAggDays days over a few readings. *)
AggCoarseDays ==
    DayRecords(AggDates, {{}, {4}, {20}}, {{}, {6}}, {{}}, {{}})

(* One-day series over the readings next to every threshold. *)
AggFineDays ==
    DayRecords(AggDates, {{}, {-3}, {4}, {5}, {20}, {32}, {33}},
               {{}, {0}, {5}, {6}}, {{}, {5}, {25}, {26}}, {{}})

(* Ten July days, three of them with more than 5 mm; five calm July days. *)
RainyDay == [date |-> Jul10, temp |-> {20}, precip |-> {12}, wind |-> {5}, precipProb |-> {}]
CalmDay == [date |-> Jul10, temp |-> {20}, precip |-> {0}, wind |-> {5}, precipProb |-> {}]
OnDay(day, n) == [day EXCEPT !.date.d = n]
TenDaysThreeRainy ==
    DailyPayload([n \in 1..10 |->
                     OnDay(IF n \in {2, 5, 9} THEN RainyDay ELSE CalmDay, 10 + n)])
FiveCalmDays == DailyPayload([n \in 1..5 |-> OnDay(CalmDay, 10 + n)])

(* Two consecutive July days, each with at most one field recorded. *)
Jul11 == [y |-> 2024, m |-> 7, d |-> 11]
Jul12 == [y |-> 2024, m |-> 7, d |-> 12]
AggGapDays(date) ==
    {[date |-> date, temp |-> f[1], precip |-> f[2], wind |-> f[3], precipProb |-> {}] :
        f \in {<<{20}, {}, {}>>, <<{}, {12}, {}>>, <<{}, {}, {5}>>, <<{}, {}, {}>>}}
AggGapPayloads ==
    {DailyPayload(<<first, second>>) :
        first \in AggGapDays(Jul11), second \in AggGapDays(Jul12)}

AggPayloads ==
    {NoDailyPayload, NoTimePayload, TenDaysThreeRainy, FiveCalmDays}
      \cup AggGapPayloads
      \cup {DailyPayload(days) : days \in SeqsUpTo(AggCoarseDays, MaxAggDays)}
      \cup {DailyPayload(<<day>>) : day \in AggFineDays}

SelectedDates == {Jan20, Feb01}

NoResult ==
    [probability |-> 0, monthlyData |-> <<>>, historicalData |-> NoDailyPayload,
     forecastData |-> {}, dataSource |-> "none"]
NoAggOut == [probability |-> 0, monthlyData |-> <<>>]
NoDailyParams == [historical |-> <<>>, forecast |-> <<>>]
NoRequests == [historical |-> 0, forecast |-> 0]

(***************************************************************************)
(* The view components: the value of their useState fields after           *)
(* construction.  null and undefined are the empty set, as above.          *)
(***************************************************************************)
(* ProbabilityResults of src/unnamed/part_005 (the monthly analysis). *)
ProbabilityResultsMounted ==
    [chartData |-> <<>>, probability |-> 50, isLoading |-> TRUE, error |-> {},
     dataSource |-> "default"]
NoProps == [date |-> [y |-> 0, m |-> 0, d |-> 0]]

(* Index of src/src/pages/Index.tsx. *)
IndexMounted ==
    [location |-> {}, selectedDate |-> {}, selectedVariables |-> <<>>,
     showResults |-> FALSE]

(* LocationSelector of src/unnamed/part_002.  A query is the sequence of   *)
(* its characters.                                                         *)
LocationSelectorMounted ==
    [selectedLocation |-> {}, searchQuery |-> <<>>, searchResults |-> <<>>,
     isSearching |-> FALSE, showResults |-> FALSE, debounceTimer |-> {}]

(* ProbabilityResults of src/src/components/ProbabilityResults.tsx (the    *)
(* 7-day forecast).                                                        *)
ForecastResultsMounted == [dailyData |-> <<>>, loading |-> TRUE, error |-> {}]
NoCoordinates == [latitude |-> {}, longitude |-> {}]
NoForecastRequests == [runs |-> 0, sent |-> 0, pending |-> {}]

EffectAtRest ==
    /\ props = NoProps
    /\ probabilityResults = ProbabilityResultsMounted
    /\ inFlight = {}
    /\ started = 0
    /\ applied = <<>>
IndexAtRest ==
    /\ indexPage = IndexMounted
    /\ toasts = <<>>
SearchAtRest ==
    /\ locationSelector = LocationSelectorMounted
    /\ timers = {}
    /\ now = 0
    /\ fetches = {}
    /\ issued = <<>>
WeekAtRest ==
    /\ forecastResults = ForecastResultsMounted
    /\ coordinates = NoCoordinates
    /\ forecastRequests = NoForecastRequests
    /\ geminiData = {}
ViewsAtRest == EffectAtRest /\ IndexAtRest /\ SearchAtRest /\ WeekAtRest
AnalysisAtRest ==
    /\ pc = "Idle"
    /\ selectedDate = Jan20
    /\ histStatus = "idle"
    /\ fcStatus = "idle"
    /\ historical = NoDailyPayload
    /\ forecast = NoDailyPayload
    /\ result = NoResult
    /\ path = <<>>
    /\ aggOut = NoAggOut
    /\ frame = {}
    /\ returned = <<>>
    /\ blendOut = <<>>
    /\ variables = <<>>
    /\ dailyParams = NoDailyParams
    /\ requests = NoRequests

AggInit ==
    /\ pc = "AggReady"
    /\ timezone \in Timezones
    /\ selectedDate \in SelectedDates
    /\ historical \in AggPayloads
    /\ histStatus = "idle"
    /\ fcStatus = "idle"
    /\ forecast = NoDailyPayload
    /\ result = NoResult
    /\ path = <<>>
    /\ aggOut = NoAggOut
    /\ frame = {}
    /\ returned = <<>>
    /\ blendOut = <<>>
    /\ variables = <<>>
    /\ dailyParams = NoDailyParams
    /\ requests = NoRequests
    /\ ViewsAtRest

(* calculateWeatherProbability(historical, selectedDate, variables) *)
CallCalculate ==
    /\ pc = "AggReady"
    /\ pc' = "AggDone"
    /\ aggOut' = calculateWeatherProbability(historical, selectedDate, timezone)
    /\ UNCHANGED <<timezone, selectedDate, histStatus, fcStatus, historical,
                   forecast, result, path, frame, returned, blendOut, variables,
                   dailyParams, requests>>
    /\ UNCHANGED viewVars

AggNext == CallCalculate

SpecAgg == AggInit /\ [][AggNext]_vars

(***************************************************************************)
(* Calls of calculateWeatherProbability, statement by statement, one after *)
(* the other on the same payload object and the same Date object.  The     *)
(* payload is passed by reference: a call runs on the payload as the call  *)
(* before left it.  The timezone of the runtime stays as it is.            *)
(***************************************************************************)
MaxCalls == 2

CallsInit ==
    /\ pc = "CallReady"
    /\ timezone \in Timezones
    /\ selectedDate \in SelectedDates
    /\ historical \in {NoDailyPayload, NoTimePayload, TenDaysThreeRainy}
                         \cup AggGapPayloads
                         \cup {DailyPayload(<<day>>) : day \in AggFineDays}
    /\ histStatus = "idle"
    /\ fcStatus = "idle"
    /\ forecast = NoDailyPayload
    /\ result = NoResult
    /\ path = <<>>
    /\ aggOut = NoAggOut
    /\ frame = {}
    /\ returned = <<>>
    /\ blendOut = <<>>
    /\ variables = <<>>
    /\ dailyParams = NoDailyParams
    /\ requests = NoRequests
    /\ ViewsAtRest

(* The call up to the declaration of monthlyStats: the early return with   *)
(* the default series, or a new empty monthlyStats object.                 *)
EnterCall ==
    /\ pc \in {"CallReady", "CallReturned"}
    /\ Len(returned) < MaxCalls
    /\ IF NoDailyData(historical)
       THEN /\ pc' = "CallReturned"
            /\ returned' = Append(returned,
                                  [probability |-> DefaultProbability,
                                   monthlyData |-> generateDefaultMonthlyData])
            /\ frame' = {}
       ELSE /\ pc' = "CallEntered"
            /\ frame' = {[monthlyStats |-> EmptyMonthlyStats]}
            /\ UNCHANGED returned
    /\ UNCHANGED <<timezone, selectedDate, histStatus, fcStatus, historical,
                   forecast, result, path, aggOut, blendOut, variables,
                   dailyParams, requests>>
    /\ UNCHANGED viewVars

(* Variant whose loop takes the records off the arrays of the payload. *)
ForEachDayConsuming ==
    /\ pc = "CallEntered"
    /\ pc' = "CallGrouped"
    /\ frame' = {[monthlyStats |->
                     GroupHistorical(historical, timezone, 1,
                                     NumberOf(frame).monthlyStats)]}
    /\ historical' = StubPayload
    /\ UNCHANGED <<timezone, selectedDate, histStatus, fcStatus,
                   forecast, result, path, aggOut, returned, blendOut, variables,
                   dailyParams, requests>>
    /\ UNCHANGED viewVars

(* daily.time.forEach(...): the callback reads the arrays of the payload   *)
(* and pushes onto the arrays of monthlyStats.                             *)
ForEachDay ==
    /\ pc = "CallEntered"
    /\ pc' = "CallGrouped"
    /\ frame' = {[monthlyStats |->
                     GroupHistorical(historical, timezone, 1,
                                     NumberOf(frame).monthlyStats)]}
    /\ UNCHANGED <<timezone, selectedDate, histStatus, fcStatus, historical,
                   forecast, result, path, aggOut, returned, blendOut, variables,
                   dailyParams, requests>>
    /\ UNCHANGED viewVars

(* The map over the twelve month names, the lookup of the selected month   *)
(* and the return of a new object; the locals of the call are gone.        *)
ReturnCall ==
    /\ pc = "CallGrouped"
    /\ pc' = "CallReturned"
    /\ LET monthlyData == [n \in DOMAIN MonthList |->
                             MonthEntry(MonthList[n], NumberOf(frame).monthlyStats)]
       IN returned' =
            Append(returned,
                   [probability |->
                        ProbabilityOr(FindMonth(monthlyData,
                                                SelectedMonthKey(selectedDate)),
                                      DefaultProbability),
                    monthlyData |-> monthlyData])
    /\ frame' = {}
    /\ UNCHANGED <<timezone, selectedDate, histStatus, fcStatus, historical,
                   forecast, result, path, aggOut, blendOut, variables,
                   dailyParams, requests>>
    /\ UNCHANGED viewVars

CallsNext == EnterCall \/ ForEachDay \/ ReturnCall

SpecCalls == CallsInit /\ [][CallsNext]_vars

(***************************************************************************)
(* Direct calls of integrateForecastData on what                           *)
(* calculateWeatherProbability returned (specification SpecBlend).         *)
(***************************************************************************)

(* One-day historical series with readings on both sides of the limits,   *)
(* and the empty series.                                                   *)
BlendHistDays ==
    DayRecords({Jan15}, {{20}, {4}, {33}}, {{0}, {6}}, {{}, {26}}, {{}})
BlendHistPayloads ==
    {StubPayload} \cup {DailyPayload(<<day>>) : day \in BlendHistDays}

(* One-day forecasts over the readings next to every limit, and forecasts *)
(* of up to MaxBlendDays days over a few readings.                         *)
BlendFineDays ==
    DayRecords({Jan20, Feb01}, {{}, {4}, {5}, {20}, {32}, {33}}, {{}, {5}, {6}},
               {{}, {25}, {26}}, {{}, {60}, {61}})
BlendCoarseDays ==
    DayRecords({Jan20, Feb01}, {{}, {4}}, {{}}, {{}}, {{}, {61}})
BlendForecastPayloads ==
    {NoDailyPayload, NoTimePayload}
      \cup {DailyPayload(<<day>>) : day \in BlendFineDays}
      \cup {DailyPayload(days) : days \in SeqsUpTo(BlendCoarseDays, MaxBlendDays)}

BlendInit ==
    /\ pc = "AggReady"
    /\ timezone \in Timezones
    /\ selectedDate = Jan20
    /\ historical \in BlendHistPayloads
    /\ forecast \in BlendForecastPayloads
    /\ histStatus = "idle"
    /\ fcStatus = "idle"
    /\ result = NoResult
    /\ path = <<>>
    /\ aggOut = NoAggOut
    /\ frame = {}
    /\ returned = <<>>
    /\ blendOut = <<>>
    /\ variables = <<>>
    /\ dailyParams = NoDailyParams
    /\ requests = NoRequests
    /\ ViewsAtRest

(* integrateForecastData(monthlyData, forecast, selectedDate) *)
CallIntegrate ==
    /\ pc = "AggDone"
    /\ pc' = "BlendDone"
    /\ blendOut' = integrateForecastData(aggOut.monthlyData, forecast, timezone)
    /\ UNCHANGED <<timezone, selectedDate, histStatus, fcStatus, historical,
                   forecast, result, path, aggOut, frame, returned, variables,
                   dailyParams, requests>>
    /\ UNCHANGED viewVars

BlendNext == CallCalculate \/ CallIntegrate

SpecBlend == BlendInit /\ [][BlendNext]_vars

(***************************************************************************)
(* The `daily` parameters the two fetch functions build (specification     *)
(* SpecParams): an invocation over every selection of up to MaxVariables   *)
(* labels.                                                                 *)
(***************************************************************************)
ParamsInit ==
    /\ pc = "Idle"
    /\ timezone \in Timezones
    /\ selectedDate \in SelectedDates
    /\ histStatus = "idle"
    /\ fcStatus = "idle"
    /\ historical = NoDailyPayload
    /\ forecast = NoDailyPayload
    /\ result = NoResult
    /\ path = <<"Idle">>
    /\ aggOut = NoAggOut
    /\ frame = {}
    /\ returned = <<>>
    /\ blendOut = <<>>
    /\ variables \in SeqsUpTo(Labels, MaxVariables)
    /\ dailyParams = NoDailyParams
    /\ requests = NoRequests
    /\ ViewsAtRest

(***************************************************************************)
(* One invocation of getWeatherProbabilityAnalysis (specification Spec).   *)
(***************************************************************************)
HistDays == DayRecords({Jan15, Mar01}, {{20}, {33}}, {{0}}, {{}}, {{}})
FcDays == DayRecords({Jan20, Feb01}, {{}}, {{}}, {{}}, {{}, {60}, {61}})

HistPayloads ==
    {NoDailyPayload, NoTimePayload}
      \cup {DailyPayload(days) : days \in SeqsUpTo(HistDays, MaxHistDays)}
ForecastPayloads ==
    {NoDailyPayload, NoTimePayload}
      \cup {DailyPayload(days) : days \in SeqsUpTo(FcDays, MaxFcDays)}

(* The selection the invocations below are made with. *)
SelectedVariables == <<"temperature", "precipitation", "airquality">>

Init ==
    /\ pc = "Idle"
    /\ timezone \in Timezones
    /\ selectedDate \in SelectedDates
    /\ histStatus = "idle"
    /\ fcStatus = "idle"
    /\ historical = NoDailyPayload
    /\ forecast = NoDailyPayload
    /\ result = NoResult
    /\ path = <<"Idle">>
    /\ aggOut = NoAggOut
    /\ frame = {}
    /\ returned = <<>>
    /\ blendOut = <<>>
    /\ variables = SelectedVariables
    /\ dailyParams = NoDailyParams
    /\ requests = NoRequests
    /\ ViewsAtRest

(* The call: both fetches are issued, the function awaits allSettled. *)
Invoke ==
    /\ pc = "Idle"
    /\ pc' = "Fetching"
    /\ histStatus' = "pending"
    /\ fcStatus' = "pending"
    /\ path' = Append(path, "Fetching")
    /\ dailyParams' =
          [historical |-> DailyParams(variableMapping, HistoricalDefaultParams, variables),
           forecast |-> DailyParams(forecastVariableMapping, ForecastDefaultParams,
                                    variables)]
    /\ requests' = [historical |-> requests.historical + 1,
                    forecast |-> requests.forecast + 1]
    /\ UNCHANGED <<timezone, selectedDate, historical, forecast, result, aggOut,
                   frame, returned, blendOut, variables>>
    /\ UNCHANGED viewVars

(* fetchHistoricalWeatherData resolves with the parsed response body. *)
HistoricalFulfilled ==
    /\ pc = "Fetching" /\ histStatus = "pending"
    /\ \E payload \in HistPayloads : historical' = payload
    /\ histStatus' = "fulfilled"
    /\ UNCHANGED <<pc, timezone, selectedDate, fcStatus, forecast, result, path, aggOut,
                   frame, returned, blendOut, variables, dailyParams, requests>>
    /\ UNCHANGED viewVars

(* Variant that sends the historical request a second time after a        *)
(* failure.                                                                *)
HistoricalRejectedWithRetry ==
    /\ pc = "Fetching" /\ histStatus = "pending"
    /\ IF requests.historical < 2
       THEN /\ histStatus' = "pending"
            /\ requests' = [requests EXCEPT !.historical = @ + 1]
       ELSE /\ histStatus' = "rejected"
            /\ requests' = requests
    /\ UNCHANGED <<pc, timezone, selectedDate, fcStatus, historical, forecast,
                   result, path, aggOut, frame, returned, blendOut, variables,
                   dailyParams>>
    /\ UNCHANGED viewVars

(* fetch rejects, or the status is not ok and the function throws. *)
HistoricalRejected ==
    /\ pc = "Fetching" /\ histStatus = "pending"
    /\ histStatus' = "rejected"
    /\ UNCHANGED <<pc, timezone, selectedDate, fcStatus, historical, forecast,
                   result, path, aggOut, frame, returned, blendOut, variables,
                   dailyParams, requests>>
    /\ UNCHANGED viewVars

(* fetchWeatherForecast resolves with the parsed response body. *)
ForecastFulfilled ==
    /\ pc = "Fetching" /\ fcStatus = "pending"
    /\ \E payload \in ForecastPayloads : forecast' = payload
    /\ fcStatus' = "fulfilled"
    /\ UNCHANGED <<pc, timezone, selectedDate, histStatus, historical, result, path,
                   aggOut, frame, returned, blendOut, variables, dailyParams, requests>>
    /\ UNCHANGED viewVars

ForecastRejected ==
    /\ pc = "Fetching" /\ fcStatus = "pending"
    /\ fcStatus' = "rejected"
    /\ UNCHANGED <<pc, timezone, selectedDate, histStatus, historical, forecast,
                   result, path, aggOut, frame, returned, blendOut, variables,
                   dailyParams, requests>>
    /\ UNCHANGED viewVars

(* Variant that goes on as soon as one of the two fetches has settled     *)
(* (Promise.race), taking the other one as failed.                         *)
AllSettledWhenAnySettled ==
    /\ pc = "Fetching"
    /\ \/ histStatus \in {"fulfilled", "rejected"}
       \/ fcStatus \in {"fulfilled", "rejected"}
    /\ LET outcome == AnalysisOutcome(histStatus, historical, fcStatus, forecast,
                                      selectedDate, timezone)
       IN /\ result' = outcome.result
          /\ path' = path \o outcome.path
    /\ pc' = "Done"
    /\ UNCHANGED <<timezone, selectedDate, histStatus, fcStatus, historical,
                   forecast, aggOut, frame, returned, blendOut, variables,
                   dailyParams, requests>>
    /\ UNCHANGED viewVars

(* Promise.allSettled has resolved: the rest of the function runs. *)
AllSettled ==
    /\ pc = "Fetching"
    /\ histStatus \in {"fulfilled", "rejected"}
    /\ fcStatus \in {"fulfilled", "rejected"}
    /\ LET outcome == AnalysisOutcome(histStatus, historical, fcStatus, forecast,
                                      selectedDate, timezone)
       IN /\ result' = outcome.result
          /\ path' = path \o outcome.path
    /\ pc' = "Done"
    /\ UNCHANGED <<timezone, selectedDate, histStatus, fcStatus, historical,
                   forecast, aggOut, frame, returned, blendOut, variables,
                   dailyParams, requests>>
    /\ UNCHANGED viewVars

Next ==
    \/ Invoke
    \/ HistoricalFulfilled
    \/ HistoricalRejected
    \/ ForecastFulfilled
    \/ ForecastRejected
    \/ AllSettled

Spec == Init /\ [][Next]_vars

(* The step that resumes the function after `await`: enabled exactly when *)
(* AllSettled is, and every step from Fetching to Done is an AllSettled    *)
(* step.                                                                   *)
Resume ==
    /\ pc = "Fetching"
    /\ histStatus \in {"fulfilled", "rejected"}
    /\ fcStatus \in {"fulfilled", "rejected"}
    /\ pc' = "Done"

(* The continuation of the awaited promise runs once the promise has       *)
(* resolved: the event loop does not starve it.  Nothing obliges a fetch   *)
(* to settle.  (Weak fairness of AllSettled, written on Resume.)           *)
SpecLive == Spec /\ WF_pc(Resume)

ParamsNext == Invoke

SpecParams == ParamsInit /\ [][ParamsNext]_vars

(***************************************************************************)
(* Properties of getWeatherProbabilityAnalysis (checked under Spec).       *)
(***************************************************************************)

(* The historical fetch was fulfilled with at least one daily record. *)
HistoricalHasRecords ==
    /\ histStatus = "fulfilled"
    /\ historical.hasDaily /\ historical.hasTime
    /\ Len(historical.time) >= 1

(* The historical fetch was fulfilled with a `time` array of length 0. *)
HistoricalEmpty ==
    /\ histStatus = "fulfilled"
    /\ historical.hasDaily /\ historical.hasTime
    /\ Len(historical.time) = 0

CannedProbabilities == <<45, 42, 38, 35, 30, 25, 22, 24, 28, 35, 40, 43>>

(* C1: when the historical fetch is rejected, or fulfilled with an empty   *)
(* time array, the result has dataSource 'default', probability 50 and the *)
(* canned 12-month series as monthlyData, whatever the forecast fetch did. *)
C1_DefaultWhenHistoricalUnavailable ==
    (pc = "Done" /\ (histStatus = "rejected" \/ HistoricalEmpty)) =>
        /\ result.dataSource = "default"
        /\ result.probability = 50
        /\ result.monthlyData = generateDefaultMonthlyData
        /\ \A n \in 1..12 :
              result.monthlyData[n].probability = CannedProbabilities[n]

(* C1 witness: an empty historical series next to a forecast that holds    *)
(* an adverse day ended in the default result.                             *)
C1_Witness ==
    /\ pc = "Done" /\ HistoricalEmpty
    /\ fcStatus = "fulfilled" /\ forecast.hasDaily
    /\ \E i \in DOMAIN forecast.time : forecast.precipitation_probability_max[i] = {61}
    /\ result.dataSource = "default"

(* C2: when the historical fetch is fulfilled with at least one record and *)
(* the forecast fetch is rejected, dataSource is 'historical', forecastData *)
(* is null and every month's probability is the one                        *)
(* calculateWeatherProbability returns for the historical payload.         *)
C2_HistoricalOnlyWhenForecastFails ==
    (pc = "Done" /\ HistoricalHasRecords /\ fcStatus = "rejected") =>
        /\ result.dataSource = "historical"
        /\ result.forecastData = {}
        /\ Len(result.monthlyData) = 12
        /\ \A n \in 1..12 :
              result.monthlyData[n].probability =
                calculateWeatherProbability(historical, selectedDate,
                                            timezone).monthlyData[n].probability

(* C2 witness: a historical-only result with an all-adverse month. *)
C2_Witness ==
    /\ pc = "Done" /\ HistoricalHasRecords /\ fcStatus = "rejected"
    /\ result.dataSource = "historical"
    /\ \E n \in 1..12 : result.monthlyData[n].probability = 95

(* C3: when the historical fetch is fulfilled with at least one record and *)
(* the forecast fetch is fulfilled too, dataSource is 'combined', for      *)
(* every forecast payload.                                                 *)
C3_CombinedWhenBothSucceed ==
    (pc = "Done" /\ HistoricalHasRecords /\ fcStatus = "fulfilled") =>
        result.dataSource = "combined"

(* The positions of one month as the properties below describe them: for  *)
(* each field, the indices of the month's dates at which it is defined, in *)
(* date order; position p of a field is its p-th such index.               *)
MonthIndices(daily, arr, key, tz) ==
    {i \in DOMAIN daily.time :
        DateStringMonthKey(daily.time[i], tz) = key /\ At(arr, i) # {}}
NthOf(I, p) == CHOOSE i \in I : Cardinality({j \in I : j < i}) = p - 1
PositionValue(arr, I, p) == IF p <= Cardinality(I) THEN arr[NthOf(I, p)] ELSE {}

Above(opt, limit) == \E v \in opt : v > limit
Below(opt, limit) == \E v \in opt : v < limit

(* Adverse and counted forecast positions of the month `key`. *)
ForecastPositions(daily, key, tz) ==
    LET T == MonthIndices(daily, daily.temperature_2m_max, key, tz)
        P == MonthIndices(daily, daily.precipitation_sum, key, tz)
        W == MonthIndices(daily, daily.windspeed_10m_max, key, tz)
        Q == MonthIndices(daily, daily.precipitation_probability_max, key, tz)
        counted == {p \in 1..Len(daily.time) :
                      \/ p <= Cardinality(T) \/ p <= Cardinality(P)
                      \/ p <= Cardinality(W) \/ p <= Cardinality(Q)}
        adverse == {p \in counted :
                      \/ Above(PositionValue(daily.precipitation_sum, P, p), 5)
                      \/ Below(PositionValue(daily.temperature_2m_max, T, p), 5)
                      \/ Above(PositionValue(daily.temperature_2m_max, T, p), 32)
                      \/ Above(PositionValue(daily.windspeed_10m_max, W, p), 25)
                      \/ Above(PositionValue(daily.precipitation_probability_max, Q, p), 60)}
    IN [adverseCount |-> Cardinality(adverse), totalCount |-> Cardinality(counted)]

(* The month keys the grouping derives from the dates of a payload: the   *)
(* buckets it creates.                                                     *)
MonthKeysOf(daily, tz) ==
    {DateStringMonthKey(daily.time[i], tz) : i \in DOMAIN daily.time}

BothSucceeded ==
    /\ pc = "Done" /\ HistoricalHasRecords
    /\ fcStatus = "fulfilled" /\ forecast.hasDaily /\ forecast.hasTime

HistoricalRatio(n) ==
    calculateWeatherProbability(historical, selectedDate,
                                timezone).monthlyData[n].probability

(* C4: when both fetches succeed, every month that occurs among the        *)
(* forecast dates reports clamp(round(histRatio * 0.7 + forecastRatio *    *)
(* 0.3), 5, 95), with forecastRatio = 100 * adverse / total of the month's *)
(* forecast positions (which needs total > 0); the expression is evaluated *)
(* as the code evaluates it, in doubles.                                   *)
C4_BlendedRatioForForecastMonths ==
    BothSucceeded =>
        \A n \in 1..12 :
            ShortMonthNames[n] \in MonthKeysOf(forecast, timezone) =>
                LET c == ForecastPositions(forecast, ShortMonthNames[n], timezone)
                IN /\ c.totalCount > 0
                   /\ result.monthlyData[n].probability =
                        Min2(Max2(BlendRound(HistoricalRatio(n), c), 5), 95)

(* C5: every month's probability and the headline probability is an        *)
(* integer in 5..95, in every result of getWeatherProbabilityAnalysis and  *)
(* in what calculateWeatherProbability returns for the historical payload. *)
C5_ProbabilitiesWithinFiveAndNinetyFive ==
    /\ pc = "Done" =>
          /\ result.probability \in 5..95
          /\ \A n \in DOMAIN result.monthlyData :
                result.monthlyData[n].probability \in 5..95
    /\ histStatus = "fulfilled" =>
          LET calculated == calculateWeatherProbability(historical, selectedDate, timezone)
          IN /\ calculated.probability \in 5..95
             /\ \A n \in DOMAIN calculated.monthlyData :
                   calculated.monthlyData[n].probability \in 5..95

(* C5 witness: a combined result in which blending changed a month, with   *)
(* one month at the upper limit and one at the lower limit.                *)
C5_Witness ==
    /\ BothSucceeded /\ result.dataSource = "combined"
    /\ \E n \in 1..12 : result.monthlyData[n].probability # HistoricalRatio(n)
    /\ \E n \in 1..12 : result.monthlyData[n].probability = 95
    /\ \E n \in 1..12 : result.monthlyData[n].probability = 5

IsJanToDec(monthlyData) ==
    /\ Len(monthlyData) = 12
    /\ [n \in 1..12 |-> monthlyData[n].month]
         = <<"Jan", "Feb", "Mar", "Apr", "May", "Jun",
             "Jul", "Aug", "Sep", "Oct", "Nov", "Dec">>

(* C6: monthlyData has exactly the 12 entries Jan, Feb, ..., Dec in that   *)
(* order, in every result of getWeatherProbabilityAnalysis and in what     *)
(* calculateWeatherProbability returns for the historical payload.         *)
C6_TwelveMonthsInOrder ==
    /\ pc = "Done" => IsJanToDec(result.monthlyData)
    /\ histStatus = "fulfilled" =>
          IsJanToDec(calculateWeatherProbability(historical, selectedDate,
                                                 timezone).monthlyData)

(* C6 witness: a combined result over a historical series that has records *)
(* in one month only.                                                      *)
C6_Witness ==
    /\ BothSucceeded /\ result.dataSource = "combined"
    /\ Cardinality(MonthKeysOf(historical, timezone)) = 1
    /\ MonthKeysOf(forecast, timezone) # {}

(* No field is defined at any forecast date of the month `key`. *)
NoForecastValue(key) ==
    \A i \in DOMAIN forecast.time :
        DateStringMonthKey(forecast.time[i], timezone) = key =>
            /\ At(forecast.temperature_2m_max, i) = {}
            /\ At(forecast.precipitation_sum, i) = {}
            /\ At(forecast.windspeed_10m_max, i) = {}
            /\ At(forecast.precipitation_probability_max, i) = {}

(* C10: a month for which the forecast holds no defined value, also when   *)
(* it has forecast dates, keeps its historical ratio.                      *)
C10_BlendOnlyWithForecastValues ==
    BothSucceeded =>
        \A n \in 1..12 :
            NoForecastValue(ShortMonthNames[n]) =>
                result.monthlyData[n].probability = HistoricalRatio(n)

Settled(status) == status \in {"fulfilled", "rejected"}

(* C13: both fetches are issued in the same step; the settlement of one    *)
(* leaves the other as it is, pending included; the analysis does not      *)
(* start, and no result exists, before both have settled, so an invocation *)
(* with a fetch that stays pending never returns.                          *)
C13_ResultOnlyAfterBothSettled ==
    /\ [](histStatus = "idle" <=> fcStatus = "idle")
    /\ []((pc = "Done" \/ result # NoResult \/ Len(path) > 2) =>
              (Settled(histStatus) /\ Settled(fcStatus)))
    /\ [][/\ histStatus' # histStatus /\ histStatus # "idle" =>
                fcStatus' = fcStatus /\ forecast' = forecast
          /\ fcStatus' # fcStatus /\ fcStatus # "idle" =>
                histStatus' = histStatus /\ historical' = historical]_vars
    /\ [][pc' # pc /\ pc = "Fetching" =>
                (Settled(histStatus) /\ Settled(fcStatus))]_vars

(* C13 witness: the historical fetch failed, the forecast fetch went on to *)
(* deliver its payload, and the result carries that payload.               *)
C13_Witness ==
    /\ pc = "Done"
    /\ histStatus = "rejected" /\ fcStatus = "fulfilled"
    /\ forecast.hasDaily /\ Len(forecast.time) >= 1
    /\ result.forecastData = {forecast}

(* The ways through one invocation. *)
DonePaths ==
    { <<"Idle", "Fetching", "Analyzing", "Done">>,
      <<"Idle", "Fetching", "Analyzing", "Blending", "Done">>,
      <<"Idle", "Fetching", "DefaultFallback", "Done">> }

IsPrefix(p, q) == Len(p) <= Len(q) /\ SubSeq(q, 1, Len(p)) = p

(* C14 (under SpecLive): once both fetches have settled the invocation     *)
(* reaches Done; it got there along Idle, Fetching, then Analyzing with an *)
(* optional Blending or DefaultFallback, then Done; at Done it has a       *)
(* result (not an exception) whose dataSource is 'combined', 'historical'  *)
(* or 'default'; and Done is final, so it is reached once and the result   *)
(* does not change afterwards.                                             *)
C14_EveryInvocationReachesDone ==
    /\ (Settled(histStatus) /\ Settled(fcStatus)) ~> (pc = "Done")
    /\ [](\E q \in DonePaths : IsPrefix(path, q))
    /\ [](pc = "Done" <=> path \in DonePaths)
    /\ [](pc = "Done" =>
             /\ result.dataSource \in {"combined", "historical", "default"}
             /\ Len(result.monthlyData) = 12)
    /\ [][pc = "Done" => (pc' = "Done" /\ result' = result /\ path' = path)]_vars

(* C14 witness: a historical response without a `daily` object, on which   *)
(* the analysis code throws, ended at Done with the default result.        *)
C14_Witness ==
    /\ pc = "Done"
    /\ histStatus = "fulfilled" /\ ~historical.hasDaily
    /\ path = <<"Idle", "Fetching", "DefaultFallback", "Done">>
    /\ result.dataSource = "default"

(* C15: when dataSource is 'historical' or 'combined', the headline       *)
(* probability is the probability of the monthlyData entry of the calendar *)
(* month of the selected date, as it stands in the returned (blended)      *)
(* series.                                                                 *)
C15_HeadlineIsSelectedMonth ==
    (pc = "Done" /\ result.dataSource \in {"historical", "combined"}) =>
        /\ result.monthlyData[selectedDate.m].month
             = <<"Jan", "Feb", "Mar", "Apr", "May", "Jun",
                 "Jul", "Aug", "Sep", "Oct", "Nov", "Dec">>[selectedDate.m]
        /\ result.probability = result.monthlyData[selectedDate.m].probability

(* C15 witness: a combined result in which blending changed the selected   *)
(* month, so that the headline differs from the historical value.          *)
C15_Witness ==
    /\ BothSucceeded /\ result.dataSource = "combined"
    /\ result.monthlyData[selectedDate.m].probability # HistoricalRatio(selectedDate.m)
    /\ result.probability = result.monthlyData[selectedDate.m].probability
    /\ result.probability
         # calculateWeatherProbability(historical, selectedDate, timezone).probability

OneRequestEach == [historical |-> 1, forecast |-> 1]

(* C18: an invocation sends one request to each endpoint, both when it is  *)
(* called; no later step sends a request, and a fetch that has settled,    *)
(* failed or empty, stays as it settled.                                   *)
C18_OneRequestPerEndpoint ==
    /\ [](pc = "Idle" => requests = NoRequests)
    /\ [](pc # "Idle" => requests = OneRequestEach)
    /\ [][requests' # requests => (pc = "Idle" /\ requests' = OneRequestEach)]_vars
    /\ [][/\ Settled(histStatus) =>
                (histStatus' = histStatus /\ historical' = historical)
          /\ Settled(fcStatus) =>
                (fcStatus' = fcStatus /\ forecast' = forecast)]_vars

(* C18 witness: an invocation whose historical fetch failed and whose      *)
(* forecast fetch delivered no day has finished with one request each.     *)
C18_Witness ==
    /\ pc = "Done"
    /\ histStatus = "rejected"
    /\ fcStatus = "fulfilled" /\ forecast.hasDaily /\ Len(forecast.time) = 0
    /\ requests = OneRequestEach

(***************************************************************************)
(* Properties of calculateWeatherProbability (checked under SpecAgg).      *)
(***************************************************************************)

(* Adverse and counted positions of the month `key` of a historical series. *)
HistoricalPositions(daily, key, tz) ==
    LET T == MonthIndices(daily, daily.temperature_2m_max, key, tz)
        P == MonthIndices(daily, daily.precipitation_sum, key, tz)
        W == MonthIndices(daily, daily.windspeed_10m_max, key, tz)
        counted == {p \in 1..Len(daily.time) :
                      p <= Cardinality(T) \/ p <= Cardinality(P) \/ p <= Cardinality(W)}
        adverse == {p \in counted :
                      \/ Above(PositionValue(daily.precipitation_sum, P, p), 5)
                      \/ Below(PositionValue(daily.temperature_2m_max, T, p), 5)
                      \/ Above(PositionValue(daily.temperature_2m_max, T, p), 32)
                      \/ Above(PositionValue(daily.windspeed_10m_max, W, p), 25)}
    IN [adverseCount |-> Cardinality(adverse), totalCount |-> Cardinality(counted)]

(* The counters the code reaches for the month `key`; both 0 when the      *)
(* month has no bucket or the series is empty.                             *)
CountsOf(weatherData, key, tz) ==
    IF NoDailyData(weatherData) THEN [adverseCount |-> 0, totalCount |-> 0]
    ELSE LET monthlyStats == GroupHistorical(weatherData, tz, 1, EmptyMonthlyStats)
         IN IF key \in DOMAIN monthlyStats THEN MonthCounts(monthlyStats[key])
            ELSE [adverseCount |-> 0, totalCount |-> 0]

Aggregated == pc = "AggDone" /\ ~NoDailyData(historical)

(* C7: a position of a month is adverse exactly when precipitation is      *)
(* defined and > 5, or temperature is defined and < 5 or > 32, or wind is  *)
(* defined and > 25; it counts toward the total exactly when one of the    *)
(* three is defined; the ratio is round(100 * adverse / total) clamped to  *)
(* 5..95.  Ten days with three over 5 mm give 30; five calm days give 5.   *)
C7_AdverseRuleAndRatio ==
    Aggregated =>
        /\ \A n \in 1..12 :
              LET key == ShortMonthNames[n]
                  c == HistoricalPositions(historical, key, timezone)
              IN /\ CountsOf(historical, key, timezone) = c
                 /\ c.totalCount > 0 =>
                       aggOut.monthlyData[n].probability =
                         Min2(Max2((200 * c.adverseCount + c.totalCount)
                                      \div (2 * c.totalCount), 5), 95)
        /\ historical = TenDaysThreeRainy => aggOut.monthlyData[7].probability = 30
        /\ historical = FiveCalmDays => aggOut.monthlyData[7].probability = 5

(* C7 witness: the ten July days with three rainy ones were aggregated to  *)
(* 30.                                                                     *)
C7_Witness ==
    /\ Aggregated /\ historical = TenDaysThreeRainy
    /\ CountsOf(historical, "Jul", timezone) = [adverseCount |-> 3, totalCount |-> 10]
    /\ aggOut.monthlyData[7].probability = 30

(* The calendar month written in a date string 'YYYY-MM-DD'. *)
WrittenMonth(date) ==
    <<"Jan", "Feb", "Mar", "Apr", "May", "Jun",
      "Jul", "Aug", "Sep", "Oct", "Nov", "Dec">>[date.m]

(* The months written in the dates of a payload. *)
WrittenMonthsOf(daily) == {WrittenMonth(daily.time[i]) : i \in DOMAIN daily.time}

(* No temperature, precipitation or wind value is recorded at any date of  *)
(* the calendar month `key`: the month a record belongs to is the one      *)
(* written in its date string.                                             *)
NoHistoricalValue(key) ==
    \A i \in DOMAIN historical.time :
        WrittenMonth(historical.time[i]) = key =>
            /\ At(historical.temperature_2m_max, i) = {}
            /\ At(historical.precipitation_sum, i) = {}
            /\ At(historical.windspeed_10m_max, i) = {}

(* C8: on a non-empty series, a calendar month for which no temperature,   *)
(* precipitation or wind value was recorded (no record dated in that       *)
(* month, or only records with all three fields absent) gets probability   *)
(* 50 and averages 0.                                                      *)
C8_EmptyMonthGetsFifty ==
    Aggregated =>
        \A n \in 1..12 :
            NoHistoricalValue(ShortMonthNames[n]) =>
                aggOut.monthlyData[n] =
                    [month |-> ShortMonthNames[n], probability |-> 50,
                     avgTemperature |-> 0, avgPrecipitation |-> 0, avgWindSpeed |-> 0]

(* The series with a record without temperature, precipitation and wind    *)
(* inserted before position k, and the series without its record i.        *)
InsertInto(arr, k, x) == SubSeq(arr, 1, k - 1) \o <<x>> \o SubSeq(arr, k, Len(arr))
Without(arr, i) == SubSeq(arr, 1, i - 1) \o SubSeq(arr, i + 1, Len(arr))
WithAbsentRecord(weatherData, k, date) ==
    [weatherData EXCEPT
        !.time = InsertInto(@, k, date),
        !.temperature_2m_max = InsertInto(@, k, {}),
        !.precipitation_sum = InsertInto(@, k, {}),
        !.windspeed_10m_max = InsertInto(@, k, {}),
        !.precipitation_probability_max = InsertInto(@, k, {})]
WithoutRecord(weatherData, i) ==
    [weatherData EXCEPT
        !.time = Without(@, i),
        !.temperature_2m_max = Without(@, i),
        !.precipitation_sum = Without(@, i),
        !.windspeed_10m_max = Without(@, i),
        !.precipitation_probability_max = Without(@, i)]
IsAbsentRecord(weatherData, i) ==
    /\ At(weatherData.temperature_2m_max, i) = {}
    /\ At(weatherData.precipitation_sum, i) = {}
    /\ At(weatherData.windspeed_10m_max, i) = {}

(* The other series gives every month the counters, ratio and averages     *)
(* that the call on `historical` returned.                                 *)
SameMonthlyOutcome(other) ==
    /\ calculateWeatherProbability(other, selectedDate, timezone).monthlyData
         = aggOut.monthlyData
    /\ \A n \in 1..12 :
          CountsOf(other, ShortMonthNames[n], timezone)
            = CountsOf(historical, ShortMonthNames[n], timezone)

(* C9 as stated: adding to, or removing from, any historical series a      *)
(* record without temperature, precipitation and wind leaves every month's *)
(* counters, ratio and averages unchanged.                                 *)
C9_AbsentRecordsChangeNothing ==
    (pc = "AggDone" /\ historical.hasDaily /\ historical.hasTime) =>
        /\ \A k \in 1..(Len(historical.time) + 1) : \A date \in AggDates :
              SameMonthlyOutcome(WithAbsentRecord(historical, k, date))
        /\ \A i \in DOMAIN historical.time :
              IsAbsentRecord(historical, i) =>
                  SameMonthlyOutcome(WithoutRecord(historical, i))

(* C9 amended: the same for a series that is non-empty before and after    *)
(* the change.                                                             *)
C9_AbsentRecordsChangeNothingWhenNonEmpty ==
    (pc = "AggDone" /\ historical.hasDaily /\ historical.hasTime) =>
        /\ Len(historical.time) >= 1 =>
              \A k \in 1..(Len(historical.time) + 1) : \A date \in AggDates :
                  SameMonthlyOutcome(WithAbsentRecord(historical, k, date))
        /\ Len(historical.time) >= 2 =>
              \A i \in DOMAIN historical.time :
                  IsAbsentRecord(historical, i) =>
                      SameMonthlyOutcome(WithoutRecord(historical, i))

(* C9 witness: an aggregated series of two records of one month, one with  *)
(* values and one without.                                                 *)
C9_Witness ==
    /\ Aggregated /\ Len(historical.time) >= 2
    /\ \E i, j \in DOMAIN historical.time :
          /\ IsAbsentRecord(historical, i) /\ ~IsAbsentRecord(historical, j)
          /\ DateStringMonthKey(historical.time[i], timezone)
               = DateStringMonthKey(historical.time[j], timezone)
          /\ CountsOf(historical, DateStringMonthKey(historical.time[j], timezone),
                      timezone).totalCount = 1

(***************************************************************************)
(* Properties of integrateForecastData (checked under SpecBlend).          *)
(***************************************************************************)

Blended == pc = "BlendDone"

(* C11: integrateForecastData returns a series of the same length in which *)
(* every entry has the month, avgTemperature, avgPrecipitation and         *)
(* avgWindSpeed of the entry at the same position of its input, and every  *)
(* calendar month that is written in no forecast date keeps its            *)
(* probability.                                                            *)
C11_OnlyForecastMonthsChange ==
    Blended =>
        /\ Len(blendOut) = Len(aggOut.monthlyData)
        /\ \A n \in DOMAIN blendOut :
              /\ blendOut[n].month = aggOut.monthlyData[n].month
              /\ blendOut[n].avgTemperature = aggOut.monthlyData[n].avgTemperature
              /\ blendOut[n].avgPrecipitation = aggOut.monthlyData[n].avgPrecipitation
              /\ blendOut[n].avgWindSpeed = aggOut.monthlyData[n].avgWindSpeed
              /\ blendOut[n].month \notin WrittenMonthsOf(forecast) =>
                    blendOut[n].probability = aggOut.monthlyData[n].probability

(* The counters the forecast loop reaches for the month `key`; both 0     *)
(* when the month has no forecast bucket.                                  *)
ForecastCountsOf(forecastData, key, tz) ==
    IF ~forecastData.hasDaily \/ ~forecastData.hasTime
    THEN [adverseCount |-> 0, totalCount |-> 0]
    ELSE LET forecastByMonth == GroupForecast(forecastData, tz, 1, EmptyForecastByMonth)
         IN IF key \in DOMAIN forecastByMonth THEN ForecastCounts(forecastByMonth[key])
            ELSE [adverseCount |-> 0, totalCount |-> 0]

(* A forecast of one day that carries a precipitation probability only. *)
OnlyPrecipProbability(v) ==
    /\ Len(forecast.time) = 1
    /\ forecast.temperature_2m_max[1] = {}
    /\ forecast.precipitation_sum[1] = {}
    /\ forecast.windspeed_10m_max[1] = {}
    /\ forecast.precipitation_probability_max[1] = {v}

(* C12: in integrateForecastData a forecast position of a month is adverse *)
(* exactly when precipitation is defined and > 5, or temperature is        *)
(* defined and < 5 or > 32, or wind is defined and > 25, or precipitation  *)
(* probability is defined and > 60; it counts toward the total exactly     *)
(* when one of the four is defined; the positions run up to the largest of *)
(* the four per-field lengths of the month; and the month's probability is *)
(* blended with these counts.  A probability of exactly 60 is not adverse. *)
C12_ForecastAdverseRule ==
    (Blended /\ forecast.hasDaily /\ forecast.hasTime) =>
        /\ \A n \in 1..12 :
              LET key == ShortMonthNames[n]
                  c == ForecastPositions(forecast, key, timezone)
              IN /\ ForecastCountsOf(forecast, key, timezone) = c
                 /\ c.totalCount > 0 =>
                       blendOut[n].probability =
                         Min2(Max2(BlendRound(aggOut.monthlyData[n].probability, c), 5), 95)
        /\ OnlyPrecipProbability(60) =>
              \A n \in 1..12 :
                  ForecastCountsOf(forecast, ShortMonthNames[n], timezone).adverseCount = 0
        /\ OnlyPrecipProbability(61) =>
              \E n \in 1..12 :
                  ForecastCountsOf(forecast, ShortMonthNames[n], timezone)
                    = [adverseCount |-> 1, totalCount |-> 1]

(* C12 witness: two forecast days of one month, a cold one without         *)
(* precipitation probability and one with a probability of 61 and no       *)
(* temperature, make one position, which is adverse.                       *)
C12_Witness ==
    /\ Blended /\ forecast.hasDaily /\ Len(forecast.time) = 2
    /\ forecast.temperature_2m_max = <<{4}, {}>>
    /\ forecast.precipitation_probability_max = <<{}, {61}>>
    /\ \E n \in 1..12 :
          /\ ForecastCountsOf(forecast, ShortMonthNames[n], timezone)
               = [adverseCount |-> 1, totalCount |-> 1]
          /\ blendOut[n].probability # aggOut.monthlyData[n].probability

(***************************************************************************)
(* Properties of calculateWeatherProbability (checked under SpecAgg),      *)
(* continued.                                                              *)
(***************************************************************************)

(* C16: every daily record goes into the bucket of the calendar month      *)
(* written in its date string, whatever the year and the timezone of the   *)
(* runtime; so a month that is written in no date of the series has no     *)
(* record counted: probability 50 and averages 0.                          *)
C16_BucketIsWrittenMonth ==
    Aggregated =>
        /\ \A i \in DOMAIN historical.time :
              DateStringMonthKey(historical.time[i], timezone)
                = WrittenMonth(historical.time[i])
        /\ \A n \in 1..12 :
              aggOut.monthlyData[n].month \notin WrittenMonthsOf(historical) =>
                  aggOut.monthlyData[n] =
                      [month |-> aggOut.monthlyData[n].month, probability |-> 50,
                       avgTemperature |-> 0, avgPrecipitation |-> 0,
                       avgWindSpeed |-> 0]

(***************************************************************************)
(* Properties of the request parameters (checked under SpecParams).        *)
(***************************************************************************)

(* A label is recognized when, letter case aside, it is a key of the       *)
(* table.                                                                  *)
Recognized(mapping, label) == ToLowerCase(label) \in DOMAIN mapping

(* The fields of the recognized labels, in selection order. *)
RECURSIVE FieldsOfRecognized(_, _)
FieldsOfRecognized(mapping, vs) ==
    IF vs = <<>> THEN <<>>
    ELSE (IF Recognized(mapping, Head(vs)) THEN mapping[ToLowerCase(Head(vs))]
          ELSE <<>>) \o FieldsOfRecognized(mapping, Tail(vs))

(* C17: for a non-empty selection, the `daily` list of each request is     *)
(* made of the fields of the recognized labels, in selection order, with   *)
(* the label looked up regardless of letter case; an unrecognized label    *)
(* adds nothing.                                                           *)
C17_OnlyRecognizedLabelsContribute ==
    (pc = "Fetching" /\ Len(variables) > 0) =>
        /\ dailyParams.historical = FieldsOfRecognized(variableMapping, variables)
        /\ dailyParams.forecast = FieldsOfRecognized(forecastVariableMapping, variables)

(***************************************************************************)
(* Purity of calculateWeatherProbability (checked under SpecCalls).        *)
(***************************************************************************)

DocumentedLimits ==
    [precip |-> 10, tempLow |-> 0, tempHigh |-> 35, wind |-> 30, precipProb |-> 70]
CodedLimits ==
    [precip |-> 5, tempLow |-> 5, tempHigh |-> 32, wind |-> 25, precipProb |-> 60]

(* Day i of a payload is adverse by the given limits. *)
DayAdverseBy(limits, daily, i) ==
    \/ Above(daily.precipitation_sum[i], limits.precip)
    \/ Below(daily.temperature_2m_max[i], limits.tempLow)
    \/ Above(daily.temperature_2m_max[i], limits.tempHigh)
    \/ Above(daily.windspeed_10m_max[i], limits.wind)
    \/ Above(daily.precipitation_probability_max[i], limits.precipProb)

(* Every series of one day is counted by the given limits: a historical    *)
(* day with a value makes its month 95 when adverse and 5 when not, and a  *)
(* forecast day has one adverse position exactly when it is adverse.       *)
DaysCountedBy(limits) ==
    Blended =>
        /\ (Len(historical.time) = 1 /\ ~IsAbsentRecord(historical, 1)) =>
              LET key == DateStringMonthKey(historical.time[1], timezone)
              IN /\ CountsOf(historical, key, timezone).adverseCount
                      = (IF DayAdverseBy(limits, historical, 1) THEN 1 ELSE 0)
                 /\ \E n \in 1..12 :
                       /\ aggOut.monthlyData[n].month = key
                       /\ aggOut.monthlyData[n].probability
                            = (IF DayAdverseBy(limits, historical, 1) THEN 95 ELSE 5)
        /\ (forecast.hasDaily /\ Len(forecast.time) = 1) =>
              LET key == DateStringMonthKey(forecast.time[1], timezone)
              IN ForecastCountsOf(forecast, key, timezone).adverseCount
                   = (IF DayAdverseBy(limits, forecast, 1) THEN 1 ELSE 0)

(* C20 as stated: a day is adverse on precipitation above 10 mm, on        *)
(* temperature below 0 or above 35 degrees, on wind above 30 km/h and, for *)
(* forecast days, on precipitation probability above 70 %.                 *)
C20_DocumentedLimits == DaysCountedBy(DocumentedLimits)

(* C20 amended: a day is adverse on precipitation above 5 mm, on           *)
(* temperature below 5 or above 32 degrees, on wind above 25 km/h and, for *)
(* forecast days, on precipitation probability above 60 %.                 *)
C20_CodedLimits == DaysCountedBy(CodedLimits)

(* C20 witness: a historical day with 6 mm of precipitation at 20 degrees  *)
(* and a forecast day with a precipitation probability of 61 % were both   *)
(* counted as adverse.                                                     *)
C20_Witness ==
    /\ Blended
    /\ Len(historical.time) = 1
    /\ historical.precipitation_sum[1] = {6}
    /\ historical.temperature_2m_max[1] = {20}
    /\ historical.windspeed_10m_max[1] = {}
    /\ \E n \in 1..12 : aggOut.monthlyData[n].probability = 95
    /\ forecast.hasDaily /\ OnlyPrecipProbability(61)
    /\ ForecastCountsOf(forecast, DateStringMonthKey(forecast.time[1], timezone),
                        timezone).adverseCount = 1

(***************************************************************************)
(* ProbabilityResults of src/unnamed/part_005 (specification SpecEffect).  *)
(* Its effect runs after the first render and after every render in which  *)
(* a dependency (coordinates, date, variables) changed.  A run sets        *)
(* isLoading, awaits getWeatherProbabilityAnalysis and, when the analysis  *)
(* resolves, writes the result and clears isLoading.  Nothing cancels a    *)
(* run, and the runs resolve in any order.                                 *)
(***************************************************************************)
MaxRuns == 3

(* The dates the calendar hands to the component. *)
EffectDates == {Jan20, Feb01}

(* What the two endpoints may answer while the component is mounted: a wet *)
(* January and a calm February in the archive, one wet forecast day.       *)
WetJanCalmFeb ==
    DailyPayload(<<[RainyDay EXCEPT !.date = Jan15], [CalmDay EXCEPT !.date = [y |-> 2023, m |-> 2, d |-> 15]]>>)
WetForecastDay ==
    DailyPayload(<<[date |-> Feb01, temp |-> {20}, precip |-> {0}, wind |-> {5},
                    precipProb |-> {61}]>>)
EffectHistPayloads == {NoDailyPayload, WetJanCalmFeb}
EffectForecastPayloads == {NoDailyPayload, WetForecastDay}

(* The values getWeatherProbabilityAnalysis may resolve with for a date. *)
AnalysisResults(date, tz) ==
    {AnalysisOutcome(hs, hist, fs, fc, date, tz).result :
        hs \in {"fulfilled", "rejected"}, hist \in EffectHistPayloads,
        fs \in {"fulfilled", "rejected"}, fc \in EffectForecastPayloads}

EffectInit == AnalysisAtRest /\ ViewsAtRest /\ timezone \in Timezones

(* A render with new dependencies, and the run of the effect that follows  *)
(* it, up to its await.  The catch block of the effect is never entered:   *)
(* getWeatherProbabilityAnalysis catches what it throws and resolves with  *)
(* a default result, and toISOString does not throw on a calendar date.    *)
Render(date) ==
    /\ started < MaxRuns
    /\ started' = started + 1
    /\ props' = [date |-> date]
    /\ probabilityResults' =
          [probabilityResults EXCEPT !.isLoading = TRUE, !.error = {}]
    /\ inFlight' = inFlight \cup {[id |-> started + 1, date |-> date]}
    /\ UNCHANGED <<applied, analysisVars, indexVars, searchVars, weekVars>>

(* Variant in which only the run started last writes its result. *)
ResolveLatestOnly ==
    \E run \in inFlight :
    /\ inFlight' = inFlight \ {run}
    /\ IF run.id = started
       THEN /\ \E value \in AnalysisResults(run.date, timezone) :
                  probabilityResults' =
                      [probabilityResults EXCEPT !.chartData = value.monthlyData,
                                                 !.probability = value.probability,
                                                 !.dataSource = value.dataSource,
                                                 !.isLoading = FALSE]
            /\ applied' = Append(applied, run.id)
       ELSE UNCHANGED <<probabilityResults, applied>>
    /\ UNCHANGED <<props, started, analysisVars, indexVars, searchVars, weekVars>>

(* The analysis of a run resolves: the run writes chartData, probability   *)
(* and dataSource, and its finally block clears isLoading.                 *)
Resolve ==
    \E run \in inFlight :
    /\ inFlight' = inFlight \ {run}
    /\ \E value \in AnalysisResults(run.date, timezone) :
          probabilityResults' =
              [probabilityResults EXCEPT !.chartData = value.monthlyData,
                                         !.probability = value.probability,
                                         !.dataSource = value.dataSource,
                                         !.isLoading = FALSE]
    /\ applied' = Append(applied, run.id)
    /\ UNCHANGED <<props, started, analysisVars, indexVars, searchVars, weekVars>>

EffectNext ==
    \/ \E date \in EffectDates : Render(date)
    \/ Resolve

SpecEffect == EffectInit /\ [][EffectNext]_vars

(* C21: in the ProbabilityResults that calls getWeatherProbabilityAnalysis, *)
(* isLoading is true whenever an analysis started by the effect is in      *)
(* flight, also after the dependencies changed during an earlier analysis. *)
C21_LoadingWhileInFlight == inFlight # {} => probabilityResults.isLoading

(* What a run may write: the fields of a value the analysis of its date    *)
(* may resolve with.                                                       *)
Written(value) == <<value.monthlyData, value.probability, value.dataSource>>
Displayed == <<probabilityResults.chartData, probabilityResults.probability,
               probabilityResults.dataSource>>

(* C22: overlapping runs of the effect are not guarded: every run that     *)
(* resolves, the latest or not, writes chartData, probability and          *)
(* dataSource from its own result at that moment, and no run is dropped.   *)
C22_EveryRunWritesItsResult ==
    [][\A run \in inFlight :
          run \notin inFlight' =>
              /\ applied' = Append(applied, run.id)
              /\ Displayed' \in {Written(value) :
                                    value \in AnalysisResults(run.date, timezone)}]_vars

(* Both of two overlapping runs have completed, the earlier one resolved   *)
(* last, and what is displayed is no result of the current props.          *)
C22_Witness ==
    /\ started >= 2
    /\ inFlight = {}
    /\ \E i \in 1..Len(applied) : applied[i] = started
    /\ applied[Len(applied)] < started
    /\ Displayed \notin {Written(value) :
                            value \in AnalysisResults(props.date, timezone)}

(***************************************************************************)
(* The positional walk of calculateWeatherProbability against a per-day     *)
(* evaluation (checked under SpecAgg).                                     *)
(***************************************************************************)

(* The days of the month `key` with at least one of temperature,           *)
(* precipitation and wind recorded, and those of them whose own values     *)
(* breach a threshold.                                                     *)
DayCountsOf(daily, key, tz) ==
    LET days == {i \in DOMAIN daily.time :
                    /\ DateStringMonthKey(daily.time[i], tz) = key
                    /\ \/ At(daily.temperature_2m_max, i) # {}
                       \/ At(daily.precipitation_sum, i) # {}
                       \/ At(daily.windspeed_10m_max, i) # {}}
        adverse == {i \in days :
                      \/ Above(At(daily.precipitation_sum, i), 5)
                      \/ Below(At(daily.temperature_2m_max, i), 5)
                      \/ Above(At(daily.temperature_2m_max, i), 32)
                      \/ Above(At(daily.windspeed_10m_max, i), 25)}
    IN [adverseCount |-> Cardinality(adverse), totalCount |-> Cardinality(days)]

(* C23: for every month, the total count is the number of days with at     *)
(* least one of temperature, precipitation and wind recorded, and the      *)
(* adverse count the number of those days whose own values breach a        *)
(* threshold: the positional walk counts as a per-day evaluation does,     *)
(* also when fields are missing on some days.                              *)
C23_WalkCountsDays ==
    Aggregated =>
        \A n \in 1..12 :
            CountsOf(historical, ShortMonthNames[n], timezone)
              = DayCountsOf(historical, ShortMonthNames[n], timezone)

(* C24: the loop walks the positions 1..max(len temperatures, len          *)
(* precipitation, len windSpeeds) of the month's per-field sequences (the  *)
(* defined values in date order); the total count is that maximum, and a   *)
(* position is adverse on the values the three sequences hold at it,       *)
(* whichever days they come from.                                          *)
C24_WalkIsPositional ==
    Aggregated =>
        \A n \in 1..12 :
            LET key == ShortMonthNames[n]
                T == MonthIndices(historical, historical.temperature_2m_max, key, timezone)
                P == MonthIndices(historical, historical.precipitation_sum, key, timezone)
                W == MonthIndices(historical, historical.windspeed_10m_max, key, timezone)
                maxLength == Max2(Cardinality(T), Max2(Cardinality(P), Cardinality(W)))
                counts == CountsOf(historical, key, timezone)
            IN /\ counts.totalCount = maxLength
               /\ counts.adverseCount =
                    Cardinality({p \in 1..maxLength :
                        IsAdverse(PositionValue(historical.temperature_2m_max, T, p),
                                  PositionValue(historical.precipitation_sum, P, p),
                                  PositionValue(historical.windspeed_10m_max, W, p))})

(* C24 witness: a July of two days, temperature recorded on the first only *)
(* and precipitation on the second only; position 1 holds the temperature  *)
(* of one day and the precipitation of the other, and the walk counts one  *)
(* position where two days have a value.                                   *)
C24_Witness ==
    /\ Aggregated
    /\ LET T == MonthIndices(historical, historical.temperature_2m_max, "Jul", timezone)
           P == MonthIndices(historical, historical.precipitation_sum, "Jul", timezone)
       IN /\ T # {} /\ P # {}
          /\ NthOf(T, 1) # NthOf(P, 1)
    /\ CountsOf(historical, "Jul", timezone) = [adverseCount |-> 1, totalCount |-> 1]
    /\ DayCountsOf(historical, "Jul", timezone) = [adverseCount |-> 1, totalCount |-> 2]

(***************************************************************************)
(* The headline of every result (checked under Spec).                      *)
(***************************************************************************)

(* C25: in every result of getWeatherProbabilityAnalysis, the default ones *)
(* included, the headline probability is the probability of the            *)
(* monthlyData entry of the month of the selected date.                    *)
C25_HeadlineIsSelectedMonthInEveryResult ==
    pc = "Done" =>
        \A n \in 1..Len(result.monthlyData) :
            result.monthlyData[n].month = SelectedMonthKey(selectedDate) =>
                result.probability = result.monthlyData[n].probability

(***************************************************************************)
(* The `daily` parameter of the two requests (checked under SpecParams).   *)
(***************************************************************************)

(* C26: the `daily` list of either request is never empty, also for a      *)
(* non-empty selection none of whose labels is recognized ('airquality',   *)
(* 'cloudcover').                                                          *)
C26_DailyListNeverEmpty ==
    pc = "Fetching" =>
        /\ Len(dailyParams.historical) > 0
        /\ Len(dailyParams.forecast) > 0

(***************************************************************************)
(* The Index page of src/src/pages/Index.tsx (specification SpecIndex):    *)
(* the three selectors write location, selectedDate and selectedVariables, *)
(* and the Analyze button calls handleAnalyze.                             *)
(***************************************************************************)
MaxToasts == 2

IndexLocations == {[lat |-> 19, lng |-> 73, name |-> "Mumbai"]}
IndexDates == {{}} \cup {{date} : date \in SelectedDates}
IndexOptions == {"temperature", "airquality"}

Toast(kind, message) == [kind |-> kind, message |-> message]

IndexInit == AnalysisAtRest /\ ViewsAtRest /\ timezone = "UTC"

(* LocationSelector calls onLocationSelect, which is setLocation. *)
setLocation(location) ==
    /\ indexPage' = [indexPage EXCEPT !.location = {location}]
    /\ UNCHANGED <<toasts, analysisVars, effectVars, searchVars, weekVars>>

(* DateSelector calls onDateSelect with the date of the calendar, or with  *)
(* undefined when the date is deselected.                                  *)
setSelectedDate(date) ==
    /\ indexPage' = [indexPage EXCEPT !.selectedDate = date]
    /\ UNCHANGED <<toasts, analysisVars, effectVars, searchVars, weekVars>>

(* selectedVariables.filter(v => v !== variableId) *)
RECURSIVE FilterOut(_, _)
FilterOut(seq, variableId) ==
    IF seq = <<>> THEN <<>>
    ELSE IF Head(seq) = variableId THEN FilterOut(Tail(seq), variableId)
    ELSE <<Head(seq)>> \o FilterOut(Tail(seq), variableId)

(* handleToggle of WeatherVariables, whose onVariablesChange is            *)
(* setSelectedVariables.                                                   *)
handleToggle(variableId) ==
    /\ indexPage' =
          [indexPage EXCEPT !.selectedVariables =
              IF \E i \in 1..Len(@) : @[i] = variableId
              THEN FilterOut(@, variableId)
              ELSE Append(@, variableId)]
    /\ UNCHANGED <<toasts, analysisVars, effectVars, searchVars, weekVars>>

(* Variant without the test of selectedVariables. *)
handleAnalyzeWithoutVariables ==
    /\ Len(toasts) < MaxToasts
    /\ IF indexPage.location = {}
       THEN /\ toasts' = Append(toasts, Toast("error", "Please select a location"))
            /\ UNCHANGED indexPage
       ELSE IF indexPage.selectedDate = {}
       THEN /\ toasts' = Append(toasts, Toast("error", "Please select a date"))
            /\ UNCHANGED indexPage
       ELSE /\ toasts' = Append(toasts, Toast("success", "Analyzing weather patterns..."))
            /\ indexPage' = [indexPage EXCEPT !.showResults = TRUE]
    /\ UNCHANGED <<analysisVars, effectVars, searchVars, weekVars>>

(* handleAnalyze.  The scroll it schedules changes no state of the page. *)
handleAnalyze ==
    /\ Len(toasts) < MaxToasts
    /\ IF indexPage.location = {}
       THEN /\ toasts' = Append(toasts, Toast("error", "Please select a location"))
            /\ UNCHANGED indexPage
       ELSE IF indexPage.selectedDate = {}
       THEN /\ toasts' = Append(toasts, Toast("error", "Please select a date"))
            /\ UNCHANGED indexPage
       ELSE IF Len(indexPage.selectedVariables) = 0
       THEN /\ toasts' = Append(toasts, Toast("error",
                                 "Please select at least one weather variable"))
            /\ UNCHANGED indexPage
       ELSE /\ toasts' = Append(toasts, Toast("success", "Analyzing weather patterns..."))
            /\ indexPage' = [indexPage EXCEPT !.showResults = TRUE]
    /\ UNCHANGED <<analysisVars, effectVars, searchVars, weekVars>>

IndexNext ==
    \/ \E location \in IndexLocations : setLocation(location)
    \/ \E date \in IndexDates : setSelectedDate(date)
    \/ \E variableId \in IndexOptions : handleToggle(variableId)
    \/ handleAnalyze

SpecIndex == IndexInit /\ [][IndexNext]_vars

AllSelected ==
    /\ indexPage.location # {}
    /\ indexPage.selectedDate # {}
    /\ Len(indexPage.selectedVariables) >= 1

(* C27: handleAnalyze sets showResults to true only when a location, a     *)
(* date and at least one variable are selected; otherwise it reports an    *)
(* error and leaves showResults as it was.  (A call of handleAnalyze is a  *)
(* step that shows a toast.)                                               *)
C27_AnalyzeOnlyWhenAllSelected ==
    [][/\ indexPage'.showResults # indexPage.showResults =>
              (AllSelected /\ indexPage'.showResults /\ toasts' # toasts)
       /\ toasts' # toasts =>
              IF AllSelected
              THEN /\ indexPage'.showResults
                   /\ toasts'[Len(toasts')].kind = "success"
              ELSE /\ indexPage'.showResults = indexPage.showResults
                   /\ toasts'[Len(toasts')].kind = "error"]_vars

(* C27 witness: a first click with something missing reported an error and *)
(* showed nothing; a later click with everything selected showed the       *)
(* results.                                                                *)
C27_Witness ==
    /\ Len(toasts) = 2
    /\ toasts[1].kind = "error"
    /\ toasts[2].kind = "success"
    /\ indexPage.showResults
    /\ AllSelected

(***************************************************************************)
(* LocationSelector of src/unnamed/part_002 (specification SpecSearch).    *)
(* Every input change arms a 300 ms timer whose callback sends the         *)
(* geocoding request; the responses arrive in any order.  The clock counts *)
(* units of 100 ms; a timer fires when it is due or later.  A timer is the *)
(* record of its query and of the time it was set at.                      *)
(***************************************************************************)
MaxTime == 7
DebounceDelay == 3

(* What the user types: one letter, a letter and a blank, two and three    *)
(* letters.                                                                *)
SearchInputs == {<<"a">>, <<"a", " ">>, <<"a", "b">>, <<"a", "b", "c">>}

(* query.trim() *)
RECURSIVE TrimStart(_)
TrimStart(query) ==
    IF query # <<>> /\ Head(query) = " " THEN TrimStart(Tail(query)) ELSE query
RECURSIVE TrimEnd(_)
TrimEnd(query) ==
    IF query # <<>> /\ query[Len(query)] = " "
    THEN TrimEnd(SubSeq(query, 1, Len(query) - 1)) ELSE query
Trim(query) == TrimEnd(TrimStart(query))

(* The bodies the geocoding service may answer a query with: places named  *)
(* like the query, or no `results` member when it finds none.              *)
GeocodingResultOf(query) ==
    [id |-> 1, name |-> query, latitude |-> 19, longitude |-> 73]
GeocodingResponses(query) == {[results |-> {<<GeocodingResultOf(query)>>}],
                              [results |-> {}]}

SearchInit == AnalysisAtRest /\ ViewsAtRest /\ timezone = "UTC"

(* Variant that arms the new timer without clearing the pending one. *)
handleSearchChangeWithoutClear(value) ==
    LET timer == [query |-> value, setAt |-> now] IN
    /\ timers' = timers \cup {timer}
    /\ locationSelector' = [locationSelector EXCEPT !.searchQuery = value,
                                                    !.debounceTimer = {timer}]
    /\ UNCHANGED <<now, fetches, issued, analysisVars, effectVars, indexVars, weekVars>>

(* handleSearchChange: setSearchQuery(value) and debouncedSearch(value),   *)
(* which clears the timer held in debounceTimer and arms a new one.        *)
handleSearchChange(value) ==
    LET timer == [query |-> value, setAt |-> now] IN
    /\ timers' = (timers \ locationSelector.debounceTimer) \cup {timer}
    /\ locationSelector' = [locationSelector EXCEPT !.searchQuery = value,
                                                    !.debounceTimer = {timer}]
    /\ UNCHANGED <<now, fetches, issued, analysisVars, effectVars, indexVars, weekVars>>

(* Time passes. *)
Tick ==
    /\ now < MaxTime
    /\ now' = now + 1
    /\ UNCHANGED <<locationSelector, timers, fetches, issued,
                   analysisVars, effectVars, indexVars, weekVars>>

(* The callback of a timer, up to its await: a query shorter than two      *)
(* characters after trimming clears the results; any other query is sent.  *)
TimerFires ==
    \E timer \in timers :
    /\ now >= timer.setAt + DebounceDelay
    /\ timers' = timers \ {timer}
    /\ IF Len(Trim(timer.query)) < 2
       THEN /\ locationSelector' = [locationSelector EXCEPT !.searchResults = <<>>,
                                                            !.isSearching = FALSE,
                                                            !.showResults = FALSE]
            /\ UNCHANGED <<fetches, issued>>
       ELSE /\ locationSelector' = [locationSelector EXCEPT !.isSearching = TRUE,
                                                            !.showResults = TRUE]
            /\ fetches' = fetches \cup {[id |-> Len(issued) + 1, query |-> timer.query]}
            /\ issued' = Append(issued, timer.query)
    /\ UNCHANGED <<now, analysisVars, effectVars, indexVars, weekVars>>

(* A request is answered with an ok response: data.results || []. *)
FetchFulfilled ==
    \E request \in fetches :
    /\ fetches' = fetches \ {request}
    /\ \E data \in GeocodingResponses(request.query) :
          locationSelector' =
              [locationSelector EXCEPT
                  !.searchResults = IF data.results # {} THEN NumberOf(data.results)
                                    ELSE <<>>,
                  !.isSearching = FALSE]
    /\ UNCHANGED <<timers, now, issued, analysisVars, effectVars, indexVars, weekVars>>

(* A request fails, or its response is not ok: the catch block. *)
FetchFailed ==
    \E request \in fetches :
    /\ fetches' = fetches \ {request}
    /\ locationSelector' = [locationSelector EXCEPT !.searchResults = <<>>,
                                                    !.isSearching = FALSE]
    /\ UNCHANGED <<timers, now, issued, analysisVars, effectVars, indexVars, weekVars>>

(* result.id.toString(): the decimal digits of a non-negative integer. *)
RECURSIVE NumberToString(_)
NumberToString(n) ==
    LET digit == <<"0", "1", "2", "3", "4", "5", "6", "7", "8", "9">> IN
    IF n < 10 THEN digit[n + 1]
    ELSE NumberToString(n \div 10) \o digit[(n % 10) + 1]

(* handleLocationSelect on a result of the open list; onLocationSelect is  *)
(* setLocation of the Index page.  The displayName of a result without     *)
(* admin1 and country is its name.                                         *)
handleLocationSelect ==
    /\ locationSelector.showResults /\ ~locationSelector.isSearching
    /\ \E i \in 1..Len(locationSelector.searchResults) :
          LET picked == locationSelector.searchResults[i] IN
          /\ locationSelector' =
                [locationSelector EXCEPT
                    !.selectedLocation =
                        {[id |-> NumberToString(picked.id), name |-> picked.name,
                          displayName |-> picked.name,
                          coordinates |-> [lat |-> picked.latitude,
                                           lon |-> picked.longitude]]},
                    !.searchQuery = picked.name,
                    !.searchResults = <<>>,
                    !.showResults = FALSE]
          /\ indexPage' =
                [indexPage EXCEPT !.location =
                    {[lat |-> picked.latitude, lng |-> picked.longitude,
                      name |-> picked.name]}]
    /\ UNCHANGED <<toasts, timers, now, fetches, issued,
                   analysisVars, effectVars, weekVars>>

(* handleInputFocus *)
handleInputFocus ==
    /\ locationSelector' =
          [locationSelector EXCEPT
              !.showResults = IF Len(locationSelector.searchResults) > 0
                              THEN TRUE ELSE @]
    /\ UNCHANGED <<timers, now, fetches, issued,
                   analysisVars, effectVars, indexVars, weekVars>>

(* handleClickOutside, on a click outside the input and the list. *)
handleClickOutside ==
    /\ locationSelector' = [locationSelector EXCEPT !.showResults = FALSE]
    /\ UNCHANGED <<timers, now, fetches, issued,
                   analysisVars, effectVars, indexVars, weekVars>>

SearchNext ==
    \/ \E value \in SearchInputs : handleSearchChange(value)
    \/ Tick
    \/ TimerFires
    \/ FetchFulfilled
    \/ FetchFailed
    \/ handleLocationSelect
    \/ handleInputFocus
    \/ handleClickOutside

SpecSearch == SearchInit /\ [][SearchNext]_vars

(* The number of non-blank characters of a query. *)
NonBlank(query) == Cardinality({i \in 1..Len(query) : query[i] # " "})

(* C28: a geocoding request is sent only when the timer of the latest      *)
(* input change expires, 300 ms after that change or later, with a query   *)
(* of at least 2 non-blank characters; every input change cancels the      *)
(* timer that is still pending, and a shorter query sends nothing.         *)
C28_RequestOnlyAfterDebounce ==
    /\ [](timers \subseteq locationSelector.debounceTimer)
    /\ [][issued' # issued =>
             \E timer \in timers :
                /\ timer \in locationSelector.debounceTimer
                /\ timer \notin timers'
                /\ now >= timer.setAt + 3
                /\ NonBlank(timer.query) >= 2
                /\ issued' = Append(issued, timer.query)]_vars
    /\ [][\A timer \in timers :
             (timer \notin timers' /\ NonBlank(timer.query) < 2) =>
                 issued' = issued]_vars

(* C28 witness: two changes were made within 300 ms, and one request, for  *)
(* the second query, has been sent at 300 ms after the second change.      *)
C28_Witness ==
    /\ issued = << <<"a", "b", "c">> >>
    /\ locationSelector.searchQuery = <<"a", "b", "c">>
    /\ locationSelector.debounceTimer = {[query |-> <<"a", "b", "c">>, setAt |-> 1]}
    /\ now = 4
    /\ timers = {}
    /\ locationSelector.isSearching

(* C29: the search results on display (the list is open and not           *)
(* searching) are results of the query of the request sent last; a late    *)
(* response to an earlier query never replaces them.                       *)
C29_ResultsOfLatestQuery ==
    (locationSelector.showResults /\ ~locationSelector.isSearching) =>
        \A i \in 1..Len(locationSelector.searchResults) :
            /\ issued # <<>>
            /\ locationSelector.searchResults[i].name = issued[Len(issued)]

(***************************************************************************)
(* The 7-day ProbabilityResults of                                         *)
(* src/src/components/ProbabilityResults.tsx (specification SpecWeek).     *)
(* Its effect runs after every render with a new latitude or longitude:    *)
(* it validates the coordinates, sends one forecast request and, when the  *)
(* response arrives, scores every day of it.                               *)
(*  - Coordinates are kept in units of 1/10000 degree.                     *)
(*  - Readings of the response are kept in tenths and are multiples of     *)
(*    0.5, which doubles hold exactly.                                     *)
(***************************************************************************)
MaxWeekRuns == 2

Degree == 10000
DefaultLatitude == 190760
DefaultLongitude == 728777

(* The props of a render: undefined, the limits and their neighbours, 0. *)
WeekCoordinates ==
    {[latitude |-> lat, longitude |-> {73 * Degree}] :
        lat \in {{}, {-90 * Degree - 1}, {-90 * Degree}, {0}, {90 * Degree},
                 {90 * Degree + 1}}}
      \cup
    {[latitude |-> {19 * Degree}, longitude |-> lng] :
        lng \in {{}, {-180 * Degree - 1}, {-180 * Degree}, {0}, {180 * Degree},
                 {180 * Degree + 1}}}

(* latitude = 19.076, longitude = 72.8777: the defaults of the props. *)
LatitudeOf(props_) ==
    IF props_.latitude = {} THEN DefaultLatitude ELSE NumberOf(props_.latitude)
LongitudeOf(props_) ==
    IF props_.longitude = {} THEN DefaultLongitude ELSE NumberOf(props_.longitude)

(* !latitude || !longitude || latitude < -90 || latitude > 90 ||           *)
(* longitude < -180 || longitude > 180                                     *)
InvalidCoordinates(latitude, longitude) ==
    \/ latitude = 0 \/ longitude = 0
    \/ latitude < -90 * Degree \/ latitude > 90 * Degree
    \/ longitude < -180 * Degree \/ longitude > 180 * Degree

(* The days of a response body. *)
StormyDay == [tempMax |-> 395, tempMin |-> 385, wind |-> 550, precip |-> 600,
              weatherCode |-> 65]
MildDay == [tempMax |-> 205, tempMin |-> 115, wind |-> 100, precip |-> 0,
            weatherCode |-> 0]
DrizzleDay == [tempMax |-> 305, tempMin |-> -5, wind |-> 250, precip |-> 0,
               weatherCode |-> 51]
WeekDays == {StormyDay, MildDay, DrizzleDay}
WeekBodies ==
    {[hasDaily |-> FALSE, days |-> <<>>]}
      \cup {[hasDaily |-> TRUE,
             days |-> <<[date |-> Jan20] @@ first, [date |-> [y |-> 2025, m |-> 1, d |-> 21]] @@ second>>] :
               first \in WeekDays, second \in WeekDays}

(* Math.round of a value kept in tenths: ties go up. *)
RoundTenths(x) == (x + 5) \div 10

(* toLocaleDateString("en-US", { weekday: "short" }) of new Date(date):    *)
(* the date string is midnight UTC, which west of UTC is the day before.   *)
WeekdayOf(date, tz) ==
    LET utc == IF date = Jan20 THEN 1 ELSE 2
        names == <<"Sun", "Mon", "Tue">>
    IN IF tz = "America/New_York" THEN names[utc] ELSE names[utc + 1]

(* The precipitation probability estimated from the amount and the code. *)
PrecipProbOf(day) ==
    IF day.precip > 0
    THEN IF day.precip > 100 THEN 90
         ELSE IF day.precip > 50 THEN 75
         ELSE IF day.precip > 20 THEN 60
         ELSE 40
    ELSE IF day.weatherCode >= 51 /\ day.weatherCode <= 67 THEN 50
    ELSE 0

(* The humidity estimated from the code and the maximum temperature. *)
HumidityOf(day) ==
    IF day.weatherCode >= 51 /\ day.weatherCode <= 67 THEN 80
    ELSE IF day.weatherCode = 0 THEN 50
    ELSE IF day.tempMax > 300 THEN 70
    ELSE 65

(* The score of a day; avgTemp is (tempMax + tempMin) / 2. *)
ScoreOf(day) ==
    LET twiceAvgTemp == day.tempMax + day.tempMin
        temperature == IF twiceAvgTemp > 760 \/ twiceAvgTemp < 0 THEN 30
                       ELSE IF twiceAvgTemp > 660 \/ twiceAvgTemp < 100 THEN 20
                       ELSE IF twiceAvgTemp > 560 \/ twiceAvgTemp < 200 THEN 10
                       ELSE 0
        windScore == IF day.wind > 500 THEN 25
                     ELSE IF day.wind > 300 THEN 20
                     ELSE IF day.wind > 200 THEN 10
                     ELSE 0
        precipitation == IF day.precip > 500 THEN 25
                         ELSE IF day.precip > 200 THEN 15
                         ELSE IF day.precip > 50 THEN 10
                         ELSE 0
        chance == IF PrecipProbOf(day) > 80 THEN 10
                  ELSE IF PrecipProbOf(day) > 60 THEN 5
                  ELSE 0
        comfort == IF HumidityOf(day) > 90 \/ HumidityOf(day) < 20 THEN 10 ELSE 0
    IN temperature + windScore + precipitation + chance + comfort

(* daily.time.map((date, idx) => ...): precipitation_sum stays in tenths. *)
ForecastDataOf(days, tz) ==
    [idx \in DOMAIN days |->
        [date |-> days[idx].date,
         dayName |-> IF idx = 1 THEN "Today" ELSE WeekdayOf(days[idx].date, tz),
         temperature_max |-> RoundTenths(days[idx].tempMax),
         temperature_min |-> RoundTenths(days[idx].tempMin),
         windspeed_max |-> RoundTenths(days[idx].wind),
         precipitation_sum |-> days[idx].precip,
         precipitation_probability |-> PrecipProbOf(days[idx]),
         humidity |-> HumidityOf(days[idx]),
         probability |-> Min2(100, ScoreOf(days[idx]))]]

WeekInit ==
    /\ AnalysisAtRest /\ timezone \in Timezones
    /\ EffectAtRest /\ IndexAtRest /\ SearchAtRest
    /\ forecastResults = ForecastResultsMounted
    /\ coordinates = NoCoordinates
    /\ forecastRequests = NoForecastRequests
    /\ geminiData = {}

(* The first render, or a render whose latitude or longitude (after the    *)
(* defaults) differs from the render before, and the run of the effect     *)
(* that follows it, up to its await.  A render with the same latitude and  *)
(* longitude runs nothing.                                                 *)
RenderWeek(props_) ==
    /\ forecastRequests.runs < MaxWeekRuns
    /\ \/ forecastRequests.runs = 0
       \/ LatitudeOf(props_) # LatitudeOf(coordinates)
       \/ LongitudeOf(props_) # LongitudeOf(coordinates)
    /\ coordinates' = props_
    /\ IF InvalidCoordinates(LatitudeOf(props_), LongitudeOf(props_))
       THEN /\ forecastResults' =
                  [forecastResults EXCEPT !.loading = FALSE,
                                          !.error = {"Invalid coordinates provided"}]
            /\ forecastRequests' = [forecastRequests EXCEPT !.runs = @ + 1]
       ELSE /\ forecastResults' =
                  [forecastResults EXCEPT !.loading = TRUE, !.error = {}]
            /\ forecastRequests' =
                  [runs |-> forecastRequests.runs + 1,
                   sent |-> forecastRequests.sent + 1,
                   pending |-> forecastRequests.pending
                                 \cup {[id |-> forecastRequests.sent + 1,
                                        latitude |-> LatitudeOf(props_),
                                        longitude |-> LongitudeOf(props_)]}]
    /\ UNCHANGED <<geminiData, analysisVars, effectVars, indexVars, searchVars>>

(* An ok response arrives.  Without a `daily` member, daily.time throws a  *)
(* TypeError, whose message the catch block shows.                         *)
ForecastArrives ==
    \E request \in forecastRequests.pending, body \in WeekBodies :
    /\ forecastRequests' = [forecastRequests EXCEPT !.pending = @ \ {request}]
    /\ IF body.hasDaily
       THEN /\ forecastResults' =
                  [forecastResults EXCEPT
                      !.dailyData = ForecastDataOf(body.days, timezone),
                      !.loading = FALSE]
            /\ geminiData' = {ForecastDataOf(body.days, timezone)}
       ELSE /\ forecastResults' =
                  [forecastResults EXCEPT
                      !.error = {"Cannot read properties of undefined (reading 'time')"},
                      !.loading = FALSE]
            /\ UNCHANGED geminiData
    /\ UNCHANGED <<coordinates, analysisVars, effectVars, indexVars, searchVars>>

(* The request fails, or its response is not ok. *)
ForecastFails ==
    \E request \in forecastRequests.pending,
       message \in {"Failed to fetch", "Weather API failed: Bad Request"} :
    /\ forecastRequests' = [forecastRequests EXCEPT !.pending = @ \ {request}]
    /\ forecastResults' = [forecastResults EXCEPT !.error = {message},
                                                  !.loading = FALSE]
    /\ UNCHANGED <<geminiData, coordinates, analysisVars, effectVars, indexVars,
                   searchVars>>

WeekNext ==
    \/ \E props_ \in WeekCoordinates : RenderWeek(props_)
    \/ ForecastArrives
    \/ ForecastFails

SpecWeek == WeekInit /\ [][WeekNext]_vars

(* The latitude and longitude the component works with after a step. *)
InRange ==
    /\ LatitudeOf(coordinates') >= -900000 /\ LatitudeOf(coordinates') <= 900000
    /\ LongitudeOf(coordinates') >= -1800000 /\ LongitudeOf(coordinates') <= 1800000

(* C30: a run of the effect of the 7-day ProbabilityResults sends a        *)
(* forecast request exactly when the latitude is within -90..90 and the    *)
(* longitude within -180..180; otherwise it sends none, sets the error     *)
(* 'Invalid coordinates provided' and ends loading.                        *)
C30_RequestIffInRange ==
    [][forecastRequests'.runs # forecastRequests.runs =>
          IF InRange
          THEN forecastRequests'.sent = forecastRequests.sent + 1
          ELSE /\ forecastRequests'.sent = forecastRequests.sent
               /\ forecastResults'.error = {"Invalid coordinates provided"}
               /\ ~forecastResults'.loading]_vars

====
